---------------------------- MODULE Spec2Model ----------------------------
(***************************************************************************)
(* Risk Scoring Engine of the scam-detection backend (python_ai):          *)
(* anomaly detectors and aggregator (anomaly_detection.py), signal         *)
(* extractor, probability fusion, calibration and analyze (pipeline.py).   *)
(*                                                                         *)
(* Numbers.  The Python code computes with floats; the model computes the  *)
(* same expressions exactly, in fixed point:                               *)
(*   probabilities and scores   integer multiples of 1/SCALE               *)
(*   z-scores                   tenths            (30  = 3.0)              *)
(*   Keltner position           hundredths        (50  = 0.5)              *)
(*   ATR percent                tenths of percent (100 = 10%)              *)
(*   price changes, Return      hundredths        (180 = +180%)            *)
(*   volume surge factor        tenths            (50  = 5.0x)             *)
(*   market cap                 millions of USD   (50  = $50M)             *)
(*   average daily volume       thousands         (150 = 150K)             *)
(*   current price              cents             (500 = $5)               *)
(* Every input value is drawn from sample lists on which each division     *)
(* below is exact, so no rounding is introduced by the model.              *)
(***************************************************************************)
EXTENDS Integers, Sequences, FiniteSets, TLC

VARIABLES
    rf_available,    \* ScamDetectionPipeline.rf_available
    lstm_available,  \* ScamDetectionPipeline.lstm_available
    rf_detector,     \* ScamDetectionPipeline.rf_detector: the model's outputs seen so far
    lstm_detector,   \* ScamDetectionPipeline.lstm_detector: likewise
    calls,           \* the invocations to run, in order, with their arguments
    rets,            \* rets[i]: what invocation i returned
    running,         \* the invocations that run concurrently: the position of
                     \* each, the pipeline fields it has read and written, and
                     \* what it returned
    pipeline,              \* api_server.pipeline: None or the instance in use
    pipeline_initializing, \* api_server.pipeline_initializing
    pipeline_lock          \* api_server.pipeline_lock: 0 or the call that holds it

\* the globals of api_server.py
api_server == <<pipeline, pipeline_initializing, pipeline_lock>>

vars == <<rf_available, lstm_available, rf_detector, lstm_detector, calls, rets, running, api_server>>

---------------------------------------------------------------------------
(* Fixed point and small helpers *)

SCALE == 6 * 100000
U == SCALE \div 100          \* one hundredth

\* The floats that are not finite: +Inf, -Inf and NaN lie outside the range of
\* every finite value of the model.
Inf == 1000 * SCALE
NaN == Inf + 1
IsFinite(x) == -Inf < x /\ x < Inf

Abs(x) == IF x < 0 THEN -x ELSE x
\* Python's min(a, b) and max(a, b): a unless b compares smaller (greater);
\* every comparison with NaN is false.
Min(a, b) == IF a # NaN /\ b # NaN /\ b < a THEN b ELSE a
Max(a, b) == IF a # NaN /\ b # NaN /\ a < b THEN b ELSE a
\* float a + b, a * k and a / k for a finite k > 0
Plus(a, b) ==
    IF a = NaN \/ b = NaN \/ (a = Inf /\ b = -Inf) \/ (a = -Inf /\ b = Inf) THEN NaN
    ELSE IF a = Inf \/ b = Inf THEN Inf
    ELSE IF a = -Inf \/ b = -Inf THEN -Inf
    ELSE a + b
Times(a, k) == IF IsFinite(a) THEN a * k ELSE a
Over(a, k) == IF IsFinite(a) THEN a \div k ELSE a
B2I(b) == IF b THEN 1 ELSE 0

RECURSIVE MaxOfSeq(_)
MaxOfSeq(s) == IF Len(s) = 1 THEN s[1] ELSE Max(s[1], MaxOfSeq(Tail(s)))

SetMax(S) == CHOOSE x \in S : \A y \in S : y <= x

RECURSIVE SumSeq(_)
SumSeq(s) == IF s = <<>> THEN 0 ELSE s[1] + SumSeq(Tail(s))

InSeq(x, s) == \E i \in 1..Len(s) : s[i] = x

RECURSIVE FilterOut(_, _)
\* [t for t in s if t not in drop]
FilterOut(s, drop) ==
    IF s = <<>> THEN <<>>
    ELSE IF s[1] \in drop THEN FilterOut(Tail(s), drop)
         ELSE <<s[1]>> \o FilterOut(Tail(s), drop)

Prefix(s, n) == SubSeq(s, 1, Min(n, Len(s)))
Range(s) == {s[i] : i \in 1..Len(s)}

\* latest.get(col, default) / feat.get(name, default)
Get(row, col, default) == IF col \in DOMAIN row THEN row[col] ELSE default

\* Optional[float]: None is the empty sequence, a value v is <<v>>
None == <<>>
Some(v) == <<v>>

\* api_server.py as imported: no pipeline yet, nobody initializing, lock free
NotServing ==
    /\ pipeline = None
    /\ pipeline_initializing = FALSE
    /\ pipeline_lock = 0

---------------------------------------------------------------------------
(* config.py *)

RISK_LOW == 30               \* RISK_THRESHOLDS['LOW']    = 0.3
RISK_MEDIUM == 70            \* RISK_THRESHOLDS['MEDIUM'] = 0.7
z_score_threshold == 30      \* 3.0
volume_z_threshold == 25     \* 2.5
price_surge_1d_threshold == 15
price_surge_7d_threshold == 50
price_surge_extreme == 100
volume_surge_moderate == 50  \* 5.0x
volume_surge_extreme == 100  \* 10.0x
rf_weight == 5               \* ENSEMBLE_CONFIG['rf_weight']   = 0.5
lstm_weight == 5             \* ENSEMBLE_CONFIG['lstm_weight'] = 0.5
use_max_strategy == FALSE
micro_cap == 50              \* MARKET_THRESHOLDS, millions
small_cap == 300
micro_liquidity == 150       \* thousands
SEC_FLAGGED_TICKERS ==
    {"SCAM", "PUMP", "DUMP", "FRAU", "SUSP", "HALT", "XYZQ", "ABCD"}
OTC_EXCHANGES == {"OTC", "OTCBB", "OTCQX", "OTCQB", "PINK", "GREY", "OTC MARKETS"}

---------------------------------------------------------------------------
(* anomaly_detection.py.  A price table df is a sequence of rows, oldest    *)
(* first; a row is a function from column names to numbers.                 *)

Latest(df) == df[Len(df)]
Columns(df) == DOMAIN df[1]

\* An exception that ends a call, in the place of what the call returns:
\* df.iloc[-1] of an empty table, and recent[column] of an absent column.
IndexError == [raised |-> "IndexError"]
KeyError == [raised |-> "KeyError"]
Raised(r) == "raised" \in DOMAIN r

detect_zscore_anomalies(df) ==
    IF Len(df) = 0 THEN IndexError ELSE
    LET latest == Latest(df)
        return_z_short == Abs(Get(latest, "Return_ZScore_Short", 0))
        return_z_long == Abs(Get(latest, "Return_ZScore_Long", 0))
        price_z_long == Abs(Get(latest, "Price_ZScore_Long", 0))
        volume_z_short == Get(latest, "Volume_ZScore_Short", 0)
        volume_z_long == Get(latest, "Volume_ZScore_Long", 0)
        anomalies_found ==
            (IF return_z_short > z_score_threshold
                THEN <<"extreme_return_short_term">> ELSE <<>>)
            \o (IF return_z_long > z_score_threshold
                THEN <<"extreme_return_long_term">> ELSE <<>>)
            \o (IF price_z_long > z_score_threshold
                THEN <<"price_deviation_from_mean">> ELSE <<>>)
            \o (IF volume_z_short > volume_z_threshold
                THEN <<"volume_spike_short_term">> ELSE <<>>)
            \o (IF volume_z_long > volume_z_threshold
                THEN <<"volume_spike_long_term">> ELSE <<>>)
        max_z == MaxOfSeq(<<return_z_short, return_z_long, price_z_long,
                            Max(0, volume_z_short), Max(0, volume_z_long)>>)
        \* 1 - (1 / (1 + max_z / z_threshold))
        normalized_score ==
            SCALE - (SCALE * z_score_threshold) \div (z_score_threshold + max_z)
    IN  [is_anomaly |-> Len(anomalies_found) > 0,
         anomaly_score |-> normalized_score,
         anomaly_types |-> anomalies_found]

\* Faulty variant of VolatilityScore: each component clamped to 1 before the
\* average is taken.
VolatilityScore_ClampedComponents(keltner_position, atr_percent) ==
    (Min(Abs(keltner_position - 50) * 2 * U, SCALE) + Min(atr_percent * U, SCALE)) \div 2

\* the score of detect_volatility_anomalies
VolatilityScore(keltner_position, atr_percent) ==
    LET position_deviation == Abs(keltner_position - 50) * 2 * U
        volatility_factor == Min(atr_percent * U, SCALE)
    IN  Min((position_deviation + volatility_factor) \div 2, SCALE)

detect_volatility_anomalies(df) ==
    IF Len(df) = 0 THEN IndexError ELSE
    LET latest == Latest(df)
        keltner_position == Get(latest, "Keltner_Position", 50)
        breakout_upper == Get(latest, "Keltner_Breakout_Upper", 0)
        breakout_lower == Get(latest, "Keltner_Breakout_Lower", 0)
        atr_percent == Get(latest, "ATR_Percent", 0)
        anomalies_found ==
            (IF breakout_upper # 0 THEN <<"keltner_upper_breakout">> ELSE <<>>)
            \o (IF breakout_lower # 0 THEN <<"keltner_lower_breakout">> ELSE <<>>)
            \o (IF keltner_position > 120 THEN <<"extreme_keltner_high">>
                ELSE IF keltner_position < -20 THEN <<"extreme_keltner_low">>
                ELSE <<>>)
            \o (IF atr_percent > 100 THEN <<"extreme_volatility">> ELSE <<>>)
        score == VolatilityScore(keltner_position, atr_percent)
    IN  [is_anomaly |-> Len(anomalies_found) > 0,
         anomaly_score |-> score,
         anomaly_types |-> anomalies_found]

detect_surge_anomalies(df) ==
    IF Len(df) = 0 THEN IndexError ELSE
    LET latest == Latest(df)
        price_threshold == price_surge_7d_threshold
        volume_threshold == volume_surge_moderate
        price_change_1d == Abs(Get(latest, "Price_Change_1d", 0))
        price_change_7d == Get(latest, "Price_Change_7d", 0)
        price_change_30d == Get(latest, "Price_Change_30d", 0)
        volume_surge == Get(latest, "Volume_Surge_Factor", 10)
        pump_pattern == Get(latest, "Pump_Pattern", 0)
        anomalies_found ==
            (IF price_change_1d > price_surge_1d_threshold
                THEN <<"daily_price_surge">> ELSE <<>>)
            \o (IF Abs(price_change_7d) > price_threshold
                THEN (IF price_change_7d > 0 THEN <<"weekly_price_pump">>
                      ELSE <<"weekly_price_dump">>)
                ELSE <<>>)
            \o (IF Abs(price_change_7d) > price_surge_extreme
                THEN <<"extreme_weekly_price_move">> ELSE <<>>)
            \o (IF volume_surge >= volume_surge_extreme
                THEN <<"extreme_volume_explosion">>
                ELSE IF volume_surge >= volume_threshold
                THEN <<"volume_explosion">> ELSE <<>>)
            \o (IF pump_pattern # 0 THEN <<"pump_pattern_detected">> ELSE <<>>)
        price_score ==
            Min((Abs(price_change_7d) * SCALE) \div price_threshold, 2 * SCALE) \div 2
        volume_score ==
            Min((volume_surge * SCALE) \div volume_threshold, 2 * SCALE) \div 2
        score == Max(price_score, volume_score)
    IN  [is_anomaly |-> Len(anomalies_found) > 0,
         anomaly_score |-> score,
         anomaly_types |-> anomalies_found,
         \* the details are reported in percent: value * 100
         price_change_1d |-> price_change_1d * 100,
         price_change_7d |-> price_change_7d * 100,
         price_change_30d |-> price_change_30d * 100,
         volume_surge_factor |-> volume_surge,
         pump_pattern |-> pump_pattern # 0]

lookback == 14

\* recent['Close'].idxmax(): 0-based position of the first maximum
IdxMax(closes) ==
    CHOOSE p \in 0..(Len(closes) - 1) :
        /\ \A q \in 0..(Len(closes) - 1) : closes[q + 1] <= closes[p + 1]
        /\ \A q \in 0..(p - 1) : closes[q + 1] < closes[p + 1]

\* Faulty variant of InMiddleThird: the thirds of the window taken as
\* fractions, lookback / 3 < p < 2 * lookback / 3.
InMiddleThird_Fractional(max_price_position) ==
    /\ 3 * max_price_position > lookback
    /\ 3 * max_price_position < 2 * lookback

\* "max_price_position > lookback // 3 and max_price_position < lookback * 2 // 3"
InMiddleThird(max_price_position) ==
    /\ max_price_position > lookback \div 3
    /\ max_price_position < (lookback * 2) \div 3

\* the columns detect_pattern_anomalies indexes without testing for them
PatternKeyError(df) ==
    \/ "Price_Change_7d" \in Columns(df) /\ "Close" \notin Columns(df)
    \/ "Volume_Surge_Factor" \in Columns(df) /\ "Price_Change_1d" \notin Columns(df)
    \/ "Return" \notin Columns(df)

detect_pattern_anomalies(df) ==
    IF Len(df) < lookback
    THEN [is_anomaly |-> FALSE, anomaly_score |-> 0, anomaly_types |-> <<>>,
          pattern_info |-> "Insufficient data for pattern analysis"]
    ELSE IF PatternKeyError(df) THEN KeyError
    ELSE
    LET recent == SubSeq(df, Len(df) - lookback + 1, Len(df))
        closes == [i \in 1..lookback |-> recent[i]["Close"]]
        max_price_position == IdxMax(closes)
        \* recent.iloc[:p + 1] and recent.iloc[p:]
        pre_peak == SubSeq(closes, 1, max_price_position + 1)
        post_peak == SubSeq(closes, max_price_position + 1, lookback)
        \* (last / first) - 1 > 0.3   and   (last / first) - 1 < -0.2
        pump_and_dump ==
            /\ "Price_Change_7d" \in Columns(df)
            /\ InMiddleThird(max_price_position)
            /\ Len(pre_peak) > 2 /\ Len(post_peak) > 2
            /\ 10 * pre_peak[Len(pre_peak)] > 13 * pre_peak[1]
            /\ 10 * post_peak[Len(post_peak)] < 8 * post_peak[1]
        high_vol_days ==
            Cardinality({i \in 1..lookback : recent[i]["Volume_Surge_Factor"] > 30})
        high_price_move_days ==
            Cardinality({i \in 1..lookback : Abs(recent[i]["Price_Change_1d"]) > 5})
        coordinated ==
            /\ "Volume_Surge_Factor" \in Columns(df)
            /\ high_vol_days >= 3 /\ high_price_move_days >= 3
        positive_streak == Cardinality({i \in 1..lookback : recent[i]["Return"] > 0})
        streak == lookback > 5 /\ positive_streak * 10 > lookback * 8
        anomalies_found ==
            (IF pump_and_dump THEN <<"pump_and_dump_pattern">> ELSE <<>>)
            \o (IF coordinated THEN <<"coordinated_volume_price_activity">> ELSE <<>>)
            \o (IF streak THEN <<"suspicious_positive_streak">> ELSE <<>>)
        score == Min((Len(anomalies_found) * 3 * SCALE) \div 10, SCALE)
    IN  [is_anomaly |-> Len(anomalies_found) > 0,
         anomaly_score |-> score,
         anomaly_types |-> anomalies_found,
         lookback_period |-> lookback]

\* the tags a news explanation removes
NewsExplainedTags == {"daily_price_surge", "weekly_price_pump"}

\* Faulty variant of ScaledScore: the z-score component without its "1 -",
\* i.e. 1 / (1 + max_z / z_threshold), which falls as the z-scores grow.
ScaledScore_ZComplement(df, sensitivity) ==
    LET combined_score ==
            ((SCALE - detect_zscore_anomalies(df).anomaly_score) * 25
             + detect_volatility_anomalies(df).anomaly_score * 20
             + detect_surge_anomalies(df).anomaly_score * 35
             + detect_pattern_anomalies(df).anomaly_score * 20) \div 100
    IN  Min((combined_score * sensitivity) \div 2, SCALE)

\* detect_anomalies before the news adjustment: the weighted, sensitivity-scaled
\* and clamped score.  sensitivity is given in halves (2 = 1.0).
ScaledScore(df, sensitivity) ==
    LET combined_score ==
            (detect_zscore_anomalies(df).anomaly_score * 25
             + detect_volatility_anomalies(df).anomaly_score * 20
             + detect_surge_anomalies(df).anomaly_score * 35
             + detect_pattern_anomalies(df).anomaly_score * 20) \div 100
    IN  Min((combined_score * sensitivity) \div 2, SCALE)

AllTags(df) ==
    detect_zscore_anomalies(df).anomaly_types
    \o detect_volatility_anomalies(df).anomaly_types
    \o detect_surge_anomalies(df).anomaly_types
    \o detect_pattern_anomalies(df).anomaly_types

\* Faulty variant of detect_anomalies: the news adjustment applied whatever the
\* score, without the 0.3 threshold.
detect_anomalies_AlwaysDampen(df, news_flag, sensitivity) ==
    LET scaled == ScaledScore(df, sensitivity)
        combined_score == IF news_flag THEN (scaled * 6) \div 10 ELSE scaled
        all_anomaly_types ==
            IF news_flag THEN FilterOut(AllTags(df), NewsExplainedTags) ELSE AllTags(df)
        is_anomaly == combined_score > 40 * U \/ Len(all_anomaly_types) >= 3
    IN  [is_anomaly |-> is_anomaly,
         anomaly_score |-> combined_score,
         anomaly_types |-> all_anomaly_types,
         details |-> [surge_analysis |->
                          [price_change_7d |-> detect_surge_anomalies(df).price_change_7d,
                           volume_surge_factor |-> detect_surge_anomalies(df).volume_surge_factor],
                      news_adjusted |-> news_flag,
                      sensitivity |-> sensitivity]]

\* Faulty variant of detect_anomalies: a news explanation raises the score by
\* 40% instead of reducing it.
detect_anomalies_NewsAmplifies(df, news_flag, sensitivity) ==
    IF Len(df) = 0 THEN detect_zscore_anomalies(df)
    ELSE IF Len(df) >= lookback /\ PatternKeyError(df) THEN detect_pattern_anomalies(df)
    ELSE
    LET scaled == ScaledScore(df, sensitivity)
        dampen == news_flag /\ scaled > 30 * U
        combined_score == IF dampen THEN Min((scaled * 14) \div 10, SCALE) ELSE scaled
        all_anomaly_types ==
            IF dampen THEN FilterOut(AllTags(df), NewsExplainedTags) ELSE AllTags(df)
        is_anomaly == combined_score > 40 * U \/ Len(all_anomaly_types) >= 3
    IN  [is_anomaly |-> is_anomaly,
         anomaly_score |-> combined_score,
         anomaly_types |-> all_anomaly_types,
         details |-> [surge_analysis |->
                          [price_change_7d |-> detect_surge_anomalies(df).price_change_7d,
                           volume_surge_factor |-> detect_surge_anomalies(df).volume_surge_factor],
                      news_adjusted |-> news_flag,
                      sensitivity |-> sensitivity]]

\* The detectors run in order and nothing is caught: the first one that
\* raises ends the call.
detect_anomalies(df, news_flag, sensitivity) ==
    IF Len(df) = 0 THEN detect_zscore_anomalies(df)
    ELSE IF Len(df) >= lookback /\ PatternKeyError(df) THEN detect_pattern_anomalies(df)
    ELSE
    LET scaled == ScaledScore(df, sensitivity)
        dampen == news_flag /\ scaled > 30 * U
        combined_score == IF dampen THEN (scaled * 6) \div 10 ELSE scaled
        all_anomaly_types ==
            IF dampen THEN FilterOut(AllTags(df), NewsExplainedTags) ELSE AllTags(df)
        is_anomaly == combined_score > 40 * U \/ Len(all_anomaly_types) >= 3
    IN  [is_anomaly |-> is_anomaly,
         anomaly_score |-> combined_score,
         anomaly_types |-> all_anomaly_types,
         details |-> [surge_analysis |->
                          [price_change_7d |-> detect_surge_anomalies(df).price_change_7d,
                           volume_surge_factor |-> detect_surge_anomalies(df).volume_surge_factor],
                      news_adjusted |-> news_flag,
                      sensitivity |-> sensitivity]]

---------------------------------------------------------------------------
(* pipeline.py: ScamDetectionPipeline *)

severe_anomalies ==
    {"pump_and_dump_pattern", "pump_pattern_detected", "extreme_volume_explosion",
     "extreme_weekly_price_move", "coordinated_volume_price_activity",
     "extreme_volatility"}

\* Faulty variant of HasSeverePattern: only the pump-and-dump tag counts.
HasSeverePattern_PumpAndDumpOnly(anomaly_result) ==
    InSeq("pump_and_dump_pattern", anomaly_result.anomaly_types)

HasSeverePattern(anomaly_result) ==
    \E a \in severe_anomalies : InSeq(a, anomaly_result.anomaly_types)

EmptyDict == [x \in {} |-> 0]

\* The blend of the two model outputs; lstm_prob may be None.
MlProb(rf_prob, lstm_prob) ==
    IF lstm_prob = None THEN rf_prob
    ELSE IF use_max_strategy THEN Max(rf_prob, lstm_prob[1])
    ELSE Over(Plus(Times(rf_prob, rf_weight), Times(lstm_prob[1], lstm_weight)), 10)

\* Faulty variant of BlendWithAnomaly: the weighted blend alone, without the max
\* that keeps the anomaly score as a floor.
BlendOnly(rf_prob, lstm_prob, anomaly_result) ==
    (anomaly_result.anomaly_score * 7 + MlProb(rf_prob, lstm_prob) * 3) \div 10

\* combined = max(anomaly_score, anomaly_score * 0.7 + ml_prob * 0.3)
BlendWithAnomaly(rf_prob, lstm_prob, anomaly_result) ==
    LET ml_prob == MlProb(rf_prob, lstm_prob)
    IN  Max(anomaly_result.anomaly_score,
            Over(Plus(anomaly_result.anomaly_score * 7, Times(ml_prob, 3)), 10))

risk_factor_count(anomaly_result, sec_flagged, is_otc, is_micro_cap) ==
    B2I(is_otc) + B2I(is_micro_cap) + B2I(HasSeverePattern(anomaly_result))
    + B2I(anomaly_result.is_anomaly) + B2I(sec_flagged)

\* price_change_7d and volume_surge as combine_predictions reads them from the
\* surge details
SurgeDetail(anomaly_result, key, default) ==
    Get(Get(anomaly_result.details, "surge_analysis", EmptyDict), key, default)

\* Faulty variant of FloorCascade: the boost for three risk factors at 0.60.
FloorCascade_LowCountBoost(anomaly_result, sec_flagged, is_otc, is_micro_cap) ==
    LET price_change_7d == SurgeDetail(anomaly_result, "price_change_7d", 0) \div 100
        volume_surge == SurgeDetail(anomaly_result, "volume_surge_factor", 10)
        has_severe_pattern == HasSeverePattern(anomaly_result)
        count == risk_factor_count(anomaly_result, sec_flagged, is_otc, is_micro_cap)
    IN  << <<sec_flagged, 85 * U>>,
           <<is_otc /\ (Abs(price_change_7d) > 15 \/ volume_surge > 25), 45 * U>>,
           <<is_otc /\ is_micro_cap, 50 * U>>,
           <<has_severe_pattern, 65 * U>>,
           <<has_severe_pattern /\ is_otc, 75 * U>>,
           <<has_severe_pattern /\ is_otc /\ is_micro_cap, 80 * U>>,
           <<has_severe_pattern /\ is_micro_cap, 70 * U>>,
           <<count >= 3, 60 * U>>,
           <<count >= 4, 80 * U>> >>

\* The "if condition: combined = max(combined, floor)" statements of
\* combine_predictions, in program order, as <<condition, floor>>.
FloorCascade(anomaly_result, sec_flagged, is_otc, is_micro_cap) ==
    LET price_change_7d == SurgeDetail(anomaly_result, "price_change_7d", 0) \div 100
        volume_surge == SurgeDetail(anomaly_result, "volume_surge_factor", 10)
        has_severe_pattern == HasSeverePattern(anomaly_result)
        count == risk_factor_count(anomaly_result, sec_flagged, is_otc, is_micro_cap)
    IN  << <<sec_flagged, 85 * U>>,
           <<is_otc /\ (Abs(price_change_7d) > 15 \/ volume_surge > 25), 45 * U>>,
           <<is_otc /\ is_micro_cap, 50 * U>>,
           <<has_severe_pattern, 65 * U>>,
           <<has_severe_pattern /\ is_otc, 75 * U>>,
           <<has_severe_pattern /\ is_otc /\ is_micro_cap, 80 * U>>,
           <<has_severe_pattern /\ is_micro_cap, 70 * U>>,
           <<count >= 3, 70 * U>>,
           <<count >= 4, 80 * U>> >>

\* Runs the statements of a cascade one after the other.
RECURSIVE ApplyFloors(_, _)
ApplyFloors(combined, floors) ==
    IF floors = <<>> THEN combined
    ELSE ApplyFloors(IF Head(floors)[1] THEN Max(combined, Head(floors)[2]) ELSE combined,
                     Tail(floors))

\* Faulty variant of combine_predictions: the SEC flag adds 0.85 to the blend
\* and the result is returned without the final min(combined, 1.0).
combine_predictions_Unclamped(rf_prob, lstm_prob, anomaly_result, sec_flagged, is_otc, is_micro_cap) ==
    ApplyFloors(BlendWithAnomaly(rf_prob, lstm_prob, anomaly_result)
                    + (IF sec_flagged THEN 85 * U ELSE 0),
                FloorCascade(anomaly_result, sec_flagged, is_otc, is_micro_cap))

combine_predictions(rf_prob, lstm_prob, anomaly_result, sec_flagged, is_otc, is_micro_cap) ==
    LET combined == BlendWithAnomaly(rf_prob, lstm_prob, anomaly_result)
        floors == FloorCascade(anomaly_result, sec_flagged, is_otc, is_micro_cap)
    IN  Min(ApplyFloors(combined, floors), SCALE)

\* Faulty variant of calibrate_probability: LOW below the MEDIUM threshold.
calibrate_probability_LowBelowMedium(probability) ==
    IF probability < RISK_MEDIUM * U THEN "LOW" ELSE "HIGH"

calibrate_probability(probability) ==
    IF probability < RISK_LOW * U THEN "LOW"
    ELSE IF probability < RISK_MEDIUM * U THEN "MEDIUM"
    ELSE "HIGH"

---------------------------------------------------------------------------
(* feature_engineering.py: the derived columns of a row that the detectors  *)
(* and the signal extractor read.                                           *)

\* compute_surge_metrics: Is_Pumping_7d and Volume_Explosion_Moderate
Pump_Pattern(price_change_7d, volume_surge) ==
    B2I(price_change_7d > price_surge_7d_threshold
        /\ volume_surge >= volume_surge_moderate)

\* compute_keltner_channels: Close > Keltner_Upper iff the position exceeds 1,
\* Close < Keltner_Lower iff it is below 0
Keltner_Breakout_Upper(keltner_position) == B2I(keltner_position > 100)
Keltner_Breakout_Lower(keltner_position) == B2I(keltner_position < 0)

\* One engineered row.  Return and Price_Change_1d are both Close.pct_change().
Row(close, pc1, vsf, z, vol, pc7, pc30, rsi) ==
    [Close |-> close, Return |-> pc1, Price_Change_1d |-> pc1,
     Price_Change_7d |-> pc7, Price_Change_30d |-> pc30,
     Volume_Surge_Factor |-> vsf,
     Return_ZScore_Short |-> z[1], Return_ZScore_Long |-> z[2],
     Price_ZScore_Long |-> z[3],
     Volume_ZScore_Short |-> z[4], Volume_ZScore_Long |-> z[5],
     Keltner_Position |-> vol[1],
     Keltner_Breakout_Upper |-> Keltner_Breakout_Upper(vol[1]),
     Keltner_Breakout_Lower |-> Keltner_Breakout_Lower(vol[1]),
     ATR_Percent |-> vol[2],
     Pump_Pattern |-> Pump_Pattern(pc7, vsf),
     RSI_14 |-> rsi]

---------------------------------------------------------------------------
(* data_ingestion.py, live_data.py and the rest of pipeline.py               *)

\* str.upper() on the strings the model uses
LowerToUpper == [scam |-> "SCAM", pink |-> "PINK", nasdaq |-> "NASDAQ"]
Upper(str) == IF str \in DOMAIN LowerToUpper THEN LowerToUpper[str] ELSE str

check_sec_flagged_list(ticker) ==
    [is_flagged |-> Upper(ticker) \in SEC_FLAGGED_TICKERS]

\* create_feature_vector: the features compute_signals reads, from the latest row
create_feature_vector(price_df) ==
    LET latest == Latest(price_df)
    IN  [return_zscore_short |-> Get(latest, "Return_ZScore_Short", 0),
         return_zscore_long |-> Get(latest, "Return_ZScore_Long", 0),
         price_zscore_long |-> Get(latest, "Price_ZScore_Long", 0),
         volume_zscore_short |-> Get(latest, "Volume_ZScore_Short", 0),
         volume_zscore_long |-> Get(latest, "Volume_ZScore_Long", 0),
         volume_surge_factor |-> Get(latest, "Volume_Surge_Factor", 10),
         atr_percent |-> Get(latest, "ATR_Percent", 0),
         keltner_breakout_upper |-> Get(latest, "Keltner_Breakout_Upper", 0),
         price_change_7d |-> Get(latest, "Price_Change_7d", 0),
         price_change_30d |-> Get(latest, "Price_Change_30d", 0),
         pump_pattern |-> Get(latest, "Pump_Pattern", 0),
         rsi_14 |-> Get(latest, "RSI_14", 50)]

SignalDetail(code, category, weight) ==
    [code |-> code, category |-> category, weight |-> weight]

\* "if cond: signals.append(signal)"
When(cond, signal) == IF cond THEN <<signal>> ELSE <<>>

\* Faulty variant of compute_signals: the two SPIKE_7D tiers are tested
\* independently ("if" twice instead of "if/elif").
compute_signals_EveryTier(feat, fundamentals, sec_flagged, anomaly_result, price_data) ==
    LET given_price == Get(fundamentals, "current_price", 0)
        current_price ==
            IF given_price # 0 THEN given_price
            ELSE IF Len(price_data) > 0 THEN Latest(price_data).Close ELSE 0
        market_cap == Get(fundamentals, "market_cap", 0)
        avg_volume == Get(fundamentals, "avg_daily_volume", 0)
        is_otc == Get(fundamentals, "is_otc", FALSE)
        exchange == Get(fundamentals, "exchange", "")
        price_change_7d == feat.price_change_7d
        vol_surge == feat.volume_surge_factor
        price_z == MaxOfSeq(<<Abs(feat.return_zscore_short), Abs(feat.return_zscore_long),
                              Abs(feat.price_zscore_long)>>)
        vol_z == Max(feat.volume_zscore_short, feat.volume_zscore_long)
        rsi == feat.rsi_14
        atr_pct == feat.atr_percent
        price_change_30d == feat.price_change_30d
    IN  \* STRUCTURAL
        When(0 < current_price /\ current_price < 500,
             SignalDetail("MICROCAP_PRICE", "STRUCTURAL", 2))
        \o When(0 < market_cap /\ market_cap < small_cap,
                SignalDetail("SMALL_MARKET_CAP", "STRUCTURAL", 2))
        \o When(0 < avg_volume /\ avg_volume < micro_liquidity,
                SignalDetail("MICRO_LIQUIDITY", "STRUCTURAL", 2))
        \o When(is_otc \/ Upper(exchange) \in OTC_EXCHANGES,
                SignalDetail("OTC_EXCHANGE", "STRUCTURAL", 3))
        \* PATTERN
        \o When(Abs(price_change_7d) >= 50, SignalDetail("SPIKE_7D", "PATTERN", 4))
        \o When(Abs(price_change_7d) >= 25, SignalDetail("SPIKE_7D", "PATTERN", 3))
        \o (IF vol_surge >= 50 THEN <<SignalDetail("VOLUME_EXPLOSION", "PATTERN", 3)>>
            ELSE IF vol_surge >= 30 THEN <<SignalDetail("VOLUME_EXPLOSION", "PATTERN", 2)>>
            ELSE <<>>)
        \o When(InSeq("pump_and_dump_pattern", anomaly_result.anomaly_types),
                SignalDetail("SPIKE_THEN_DROP", "PATTERN", 3))
        \o (IF price_z >= 30 THEN <<SignalDetail("PRICE_ANOMALY", "PATTERN", 4)>>
            ELSE IF price_z >= 20 THEN <<SignalDetail("PRICE_ANOMALY", "PATTERN", 3)>>
            ELSE IF price_z >= 15 THEN <<SignalDetail("PRICE_ANOMALY", "PATTERN", 2)>>
            ELSE <<>>)
        \o When(vol_z >= 20, SignalDetail("VOLUME_ANOMALY", "PATTERN", 2))
        \o (IF rsi > 80 THEN <<SignalDetail("OVERBOUGHT_RSI", "PATTERN", 2)>>
            ELSE IF rsi > 70 THEN <<SignalDetail("OVERBOUGHT_RSI", "PATTERN", 1)>>
            ELSE <<>>)
        \o (IF atr_pct > 100 THEN <<SignalDetail("HIGH_VOLATILITY", "PATTERN", 2)>>
            ELSE IF atr_pct > 50 THEN <<SignalDetail("HIGH_VOLATILITY", "PATTERN", 1)>>
            ELSE <<>>)
        \o When(feat.pump_pattern # 0
                    \/ InSeq("pump_pattern_detected", anomaly_result.anomaly_types),
                SignalDetail("PUMP_PATTERN", "PATTERN", 3))
        \o When(feat.keltner_breakout_upper # 0,
                SignalDetail("KELTNER_BREAKOUT", "PATTERN", 1))
        \o When(Abs(price_change_30d) >= 100,
                SignalDetail("EXTREME_SURGE", "PATTERN", 3))
        \* ALERT
        \o When(sec_flagged, SignalDetail("ALERT_LIST_HIT", "ALERT", 5))

compute_signals(feat, fundamentals, sec_flagged, anomaly_result, price_data) ==
    LET given_price == Get(fundamentals, "current_price", 0)
        current_price ==
            IF given_price # 0 THEN given_price
            ELSE IF Len(price_data) > 0 THEN Latest(price_data).Close ELSE 0
        market_cap == Get(fundamentals, "market_cap", 0)
        avg_volume == Get(fundamentals, "avg_daily_volume", 0)
        is_otc == Get(fundamentals, "is_otc", FALSE)
        exchange == Get(fundamentals, "exchange", "")
        price_change_7d == feat.price_change_7d
        vol_surge == feat.volume_surge_factor
        price_z == MaxOfSeq(<<Abs(feat.return_zscore_short), Abs(feat.return_zscore_long),
                              Abs(feat.price_zscore_long)>>)
        vol_z == Max(feat.volume_zscore_short, feat.volume_zscore_long)
        rsi == feat.rsi_14
        atr_pct == feat.atr_percent
        price_change_30d == feat.price_change_30d
    IN  \* STRUCTURAL
        When(0 < current_price /\ current_price < 500,
             SignalDetail("MICROCAP_PRICE", "STRUCTURAL", 2))
        \o When(0 < market_cap /\ market_cap < small_cap,
                SignalDetail("SMALL_MARKET_CAP", "STRUCTURAL", 2))
        \o When(0 < avg_volume /\ avg_volume < micro_liquidity,
                SignalDetail("MICRO_LIQUIDITY", "STRUCTURAL", 2))
        \o When(is_otc \/ Upper(exchange) \in OTC_EXCHANGES,
                SignalDetail("OTC_EXCHANGE", "STRUCTURAL", 3))
        \* PATTERN
        \o (IF Abs(price_change_7d) >= 50 THEN <<SignalDetail("SPIKE_7D", "PATTERN", 4)>>
            ELSE IF Abs(price_change_7d) >= 25 THEN <<SignalDetail("SPIKE_7D", "PATTERN", 3)>>
            ELSE <<>>)
        \o (IF vol_surge >= 50 THEN <<SignalDetail("VOLUME_EXPLOSION", "PATTERN", 3)>>
            ELSE IF vol_surge >= 30 THEN <<SignalDetail("VOLUME_EXPLOSION", "PATTERN", 2)>>
            ELSE <<>>)
        \o When(InSeq("pump_and_dump_pattern", anomaly_result.anomaly_types),
                SignalDetail("SPIKE_THEN_DROP", "PATTERN", 3))
        \o (IF price_z >= 30 THEN <<SignalDetail("PRICE_ANOMALY", "PATTERN", 4)>>
            ELSE IF price_z >= 20 THEN <<SignalDetail("PRICE_ANOMALY", "PATTERN", 3)>>
            ELSE IF price_z >= 15 THEN <<SignalDetail("PRICE_ANOMALY", "PATTERN", 2)>>
            ELSE <<>>)
        \o When(vol_z >= 20, SignalDetail("VOLUME_ANOMALY", "PATTERN", 2))
        \o (IF rsi > 80 THEN <<SignalDetail("OVERBOUGHT_RSI", "PATTERN", 2)>>
            ELSE IF rsi > 70 THEN <<SignalDetail("OVERBOUGHT_RSI", "PATTERN", 1)>>
            ELSE <<>>)
        \o (IF atr_pct > 100 THEN <<SignalDetail("HIGH_VOLATILITY", "PATTERN", 2)>>
            ELSE IF atr_pct > 50 THEN <<SignalDetail("HIGH_VOLATILITY", "PATTERN", 1)>>
            ELSE <<>>)
        \o When(feat.pump_pattern # 0
                    \/ InSeq("pump_pattern_detected", anomaly_result.anomaly_types),
                SignalDetail("PUMP_PATTERN", "PATTERN", 3))
        \o When(feat.keltner_breakout_upper # 0,
                SignalDetail("KELTNER_BREAKOUT", "PATTERN", 1))
        \o When(Abs(price_change_30d) >= 100,
                SignalDetail("EXTREME_SURGE", "PATTERN", 3))
        \* ALERT
        \o When(sec_flagged, SignalDetail("ALERT_LIST_HIT", "ALERT", 5))

Weights(signals) == [i \in 1..Len(signals) |-> signals[i].weight]

\* Faulty variant of SignalRiskLevel: the verdict taken from the number of
\* signals instead of the sum of their weights.
SignalRiskLevel_ByCount(computed_signals) ==
    IF \E i \in 1..Len(computed_signals) : computed_signals[i].code = "ALERT_LIST_HIT"
    THEN "HIGH"
    ELSE IF Len(computed_signals) >= 2 THEN "HIGH"
    ELSE IF Len(computed_signals) >= 1 THEN "MEDIUM"
    ELSE "LOW"

\* Faulty variant of SignalRiskLevel: MEDIUM only from a score of 3.
SignalRiskLevel_MediumFromThree(computed_signals) ==
    IF \E i \in 1..Len(computed_signals) : computed_signals[i].code = "ALERT_LIST_HIT"
    THEN "HIGH"
    ELSE IF SumSeq([i \in 1..Len(computed_signals) |-> computed_signals[i].weight]) >= 5
    THEN "HIGH"
    ELSE IF SumSeq([i \in 1..Len(computed_signals) |-> computed_signals[i].weight]) >= 3
    THEN "MEDIUM"
    ELSE "LOW"

\* analyze, step 6: the risk level from the signal score
SignalRiskLevel(computed_signals) ==
    LET signal_total_score == SumSeq(Weights(computed_signals))
        has_alert == \E i \in 1..Len(computed_signals) :
                         computed_signals[i].code = "ALERT_LIST_HIT"
    IN  IF has_alert THEN "HIGH"
        ELSE IF signal_total_score >= 5 THEN "HIGH"
        ELSE IF signal_total_score >= 2 THEN "MEDIUM"
        ELSE "LOW"

risk_priority == [LOW |-> 0, MEDIUM |-> 1, HIGH |-> 2]

\* Faulty variant of FinalRiskLevel: the probability verdict alone.
FinalRiskLevel_MlOnly(signal_risk_level, ml_risk_level) == ml_risk_level

\* analyze, step 7: the higher of the two verdicts, the signal verdict on a tie
FinalRiskLevel(signal_risk_level, ml_risk_level) ==
    IF risk_priority[signal_risk_level] >= risk_priority[ml_risk_level]
    THEN signal_risk_level ELSE ml_risk_level

\* Faulty variant of verify_legitimate_catalysts: promotional content does not
\* keep the risk from being reduced.
verify_legitimate_catalysts_DespitePromotion(has_legitimate, has_promotional, has_sec_filings) ==
    [has_legitimate_catalyst |-> has_legitimate,
     has_sec_filings |-> has_sec_filings,
     has_promotional_signals |-> has_promotional,
     should_reduce_risk |-> has_legitimate \/ has_sec_filings,
     recommended_level |-> IF has_legitimate \/ has_sec_filings THEN "MEDIUM" ELSE "HIGH"]

\* live_data.verify_legitimate_catalysts, from what the fetched headlines and
\* filings contain
verify_legitimate_catalysts(has_legitimate, has_promotional, has_sec_filings) ==
    LET should_reduce ==
            (has_legitimate /\ ~has_promotional) \/ (has_sec_filings /\ ~has_promotional)
    IN  [has_legitimate_catalyst |-> has_legitimate,
         has_sec_filings |-> has_sec_filings,
         has_promotional_signals |-> has_promotional,
         should_reduce_risk |-> should_reduce,
         recommended_level |-> IF should_reduce THEN "MEDIUM" ELSE "HIGH"]

\* Faulty variant of EffectiveSecFlag: the upstream flag can only add to the
\* internal list, never clear a listed ticker.
EffectiveSecFlag_ListedStaysFlagged(ticker, sec_flagged_override) ==
    (sec_flagged_override # None /\ sec_flagged_override[1])
    \/ check_sec_flagged_list(ticker).is_flagged

\* analyze, step 1: the upstream flag when given, else the internal list
EffectiveSecFlag(ticker, sec_flagged_override) ==
    IF sec_flagged_override # None THEN sec_flagged_override[1]
    ELSE check_sec_flagged_list(ticker).is_flagged

\* analyze, step 1: context['sec_flagged'] after the upstream flag, when
\* given, has been written into it
ContextSecFlagged(ticker, sec_flagged_override) ==
    IF sec_flagged_override # None
    THEN [check_sec_flagged_list(ticker) EXCEPT !.is_flagged = sec_flagged_override[1]]
    ELSE check_sec_flagged_list(ticker)

\* generate_explanation: the key indicators, each by its label
generate_explanation(context, feat, anomaly_result, combined_prob) ==
    LET market_cap == Get(context.fundamentals, "market_cap", 0)
    IN  When(context.sec_flagged.is_flagged, "SEC regulatory alert")
        \o When(Get(context.fundamentals, "is_otc", FALSE), "OTC/Pink Sheets exchange")
        \o (IF market_cap < micro_cap THEN <<"Micro-cap">>
            ELSE IF market_cap < small_cap THEN <<"Small-cap">>
            ELSE <<>>)
        \o When(Abs(feat.price_change_7d) > 50, "7-day price")
        \o When(feat.volume_surge_factor > 50, "Volume surge")
        \o When(InSeq("pump_and_dump_pattern", anomaly_result.anomaly_types),
                "Pump-and-dump pattern")
        \o When(InSeq("pump_pattern_detected", anomaly_result.anomaly_types),
                "Pump pattern active")
        \o When(InSeq("extreme_volume_explosion", anomaly_result.anomaly_types),
                "Extreme volume spike")
        \o When(feat.rsi_14 > 80, "Overbought")
        \o When(~context.news_flag /\ combined_prob > 50 * U, "No news catalyst")

\* Faulty variant of explanations: the missing-news bullet is written first.
explanations_NewsFirst(context, feat, anomaly_result, combined_prob) ==
    When(~context.news_flag /\ combined_prob > 50 * U,
         "Large price move without identified news catalyst")
    \o When(context.sec_flagged.is_flagged,
            "CRITICAL: Asset appears on SEC trading suspension/alert list")
    \o When(Get(context.fundamentals, "is_otc", FALSE),
            "Listed on over-the-counter market (higher risk)")
    \o When(Get(context.fundamentals, "market_cap", 0) < micro_cap, "Very small market cap")
    \o When(Abs(feat.price_change_7d) > 50, "Large price movement")
    \o When(feat.volume_surge_factor > 50, "Trading volume above normal average")
    \o When(InSeq("pump_and_dump_pattern", anomaly_result.anomaly_types),
            "Classic pump-and-dump trading pattern detected")
    \o When(InSeq("pump_pattern_detected", anomaly_result.anomaly_types),
            "Active pump pattern: rising price + exploding volume")
    \o When(feat.rsi_14 > 80, "Technically overbought")

\* generate_explanation: the list `explanations` of prose bullets, each by its
\* text without the formatted numbers
explanations(context, feat, anomaly_result, combined_prob) ==
    When(context.sec_flagged.is_flagged,
         "CRITICAL: Asset appears on SEC trading suspension/alert list")
    \o When(Get(context.fundamentals, "is_otc", FALSE),
            "Listed on over-the-counter market (higher risk)")
    \o When(Get(context.fundamentals, "market_cap", 0) < micro_cap, "Very small market cap")
    \o When(Abs(feat.price_change_7d) > 50, "Large price movement")
    \o When(feat.volume_surge_factor > 50, "Trading volume above normal average")
    \o When(InSeq("pump_and_dump_pattern", anomaly_result.anomaly_types),
            "Classic pump-and-dump trading pattern detected")
    \o When(InSeq("pump_pattern_detected", anomaly_result.anomaly_types),
            "Active pump pattern: rising price + exploding volume")
    \o When(feat.rsi_14 > 80, "Technically overbought")
    \o When(~context.news_flag /\ combined_prob > 50 * U,
            "Large price move without identified news catalyst")

\* generate_explanation: the text `explanation`.  With no bullet it is one of
\* two fixed sentences; otherwise a "Risk Level: X" header, X being the verdict
\* of calibrate_probability, over the first five bullets.
explanation(context, feat, anomaly_result, combined_prob) ==
    LET all == explanations(context, feat, anomaly_result, combined_prob)
    IN  IF all = <<>>
        THEN [text |-> IF combined_prob < 30 * U
                       THEN "No significant red flags detected. Market behavior appears normal."
                       ELSE "Some elevated risk indicators present. Exercise normal caution.",
              header |-> None,
              body |-> <<>>]
        ELSE [text |-> "Key Risk Factors:",
              header |-> Some(calibrate_probability(combined_prob)),
              body |-> Prefix(all, 5)]

\* analyze, step 7: fundamentals.get('market_cap', inf) < micro_cap
IsMicroCap(fundamentals) ==
    "market_cap" \in DOMAIN fundamentals /\ fundamentals.market_cap < micro_cap

\* analyze from the signal verdict on: the merge of the two verdicts, news
\* verification (step 9) and the assessment returned.  The values of the earlier
\* steps are passed in; fetched is what news verification finds,
\* <<has_legitimate, has_promotional, has_sec_filings>>, or None when it raises.
analyze(ticker, use_synthetic, context, feat, sec_flagged, anomaly_result, computed_signals, rf_prob, lstm_prob, combined_prob, fetched) ==
    LET signal_total_score == SumSeq(Weights(computed_signals))
        signal_risk_level == SignalRiskLevel(computed_signals)
        ml_risk_level == calibrate_probability(combined_prob)
        merged == FinalRiskLevel(signal_risk_level, ml_risk_level)
        news_verification ==
            IF merged = "HIGH" /\ ~use_synthetic /\ fetched # None
            THEN Some(verify_legitimate_catalysts(fetched[1][1], fetched[1][2], fetched[1][3]))
            ELSE None
        risk_level ==
            IF news_verification # None /\ news_verification[1].should_reduce_risk
            THEN news_verification[1].recommended_level
            ELSE merged
        key_indicators ==
            generate_explanation(context, feat, anomaly_result, combined_prob)
            \o (IF news_verification = None THEN <<>>
                ELSE IF news_verification[1].should_reduce_risk THEN <<"News verification">>
                ELSE <<"No legitimate catalyst">>)
    IN  [ticker |-> ticker,
         risk_level |-> risk_level,
         rf_probability |-> rf_prob,
         lstm_probability |-> lstm_prob,
         combined_probability |-> combined_prob,
         anomaly_detected |-> anomaly_result.is_anomaly,
         anomaly_score |-> anomaly_result.anomaly_score,
         anomaly_types |-> anomaly_result.anomaly_types,
         sec_flagged |-> sec_flagged,
         key_indicators |-> key_indicators,
         explanation |-> explanation(context, feat, anomaly_result, combined_prob),
         detailed_report |->
             [feature_highlights |-> [sec_flagged |-> B2I(context.sec_flagged.is_flagged)],
              contextual_flags |-> [sec_flagged |-> sec_flagged,
                                    is_otc |-> Get(context.fundamentals, "is_otc", FALSE),
                                    has_news |-> context.news_flag]],
         signals |-> computed_signals,
         signal_total_score |-> signal_total_score,
         signal_risk_level |-> signal_risk_level,
         ml_risk_level |-> ml_risk_level,
         news_verification |-> news_verification]

---------------------------------------------------------------------------
(* The inputs the model draws from.  Each list holds representative values; *)
(* a bound N.. takes its first N entries.                                   *)

NZ == 4
NVol == 3
NSurge == 5
NShape == 4

\* <<Return_ZScore_Short, Return_ZScore_Long, Price_ZScore_Long,
\*   Volume_ZScore_Short, Volume_ZScore_Long>>
ZProfiles ==
    << <<0, 0, 0, 0, 0>>,
       <<-45, 45, 0, 30, 0>>,
       <<30, 0, 0, -20, 0>>,
       <<60, 0, 0, 0, 0>>,
       <<0, 0, 90, 0, 60>>,
       <<15, 0, 0, 0, 0>>,
       <<0, -25, 0, 0, 0>> >>

\* <<Keltner_Position, ATR_Percent>>
VolProfiles ==
    << <<50, 0>>, <<130, 120>>, <<70, 60>>, <<-30, 20>>, <<100, 100>> >>

\* <<Price_Change_1d, Price_Change_7d, Price_Change_30d, Volume_Surge_Factor, RSI_14>>
SurgeProfiles ==
    << <<0, 2, 0, 11, 50>>,
       <<20, 180, 200, 120, 85>>,
       <<-10, -60, -30, 70, 40>>,
       <<5, 20, 10, 30, 75>>,
       <<16, 60, 40, 20, 60>>,
       <<0, -40, 0, 50, 50>>,
       <<0, 10, 0, 26, 50>> >>

\* The rows before the latest one, as <<Close, Price_Change_1d, Volume_Surge_Factor>>,
\* and the Close of the latest row.
FlatHist == [i \in 1..13 |-> <<100, 0, 10>>]
Shapes ==
    << [hist |-> FlatHist, close |-> 100],
       \* a peak in the middle of the window, then a fall
       [hist |-> << <<100, 0, 10>>, <<105, 5, 10>>, <<110, 5, 12>>, <<120, 9, 15>>,
                    <<130, 8, 20>>, <<140, 8, 25>>, <<150, 7, 28>>, <<140, -7, 20>>,
                    <<130, -7, 15>>, <<120, -8, 12>>, <<115, -4, 10>>, <<112, -3, 10>>,
                    <<110, -2, 10>> >>,
        close |-> 110],
       \* fewer rows than the lookback
       [hist |-> << <<100, 0, 10>>, <<101, 1, 10>>, <<102, 1, 10>> >>, close |-> 103],
       \* volume and price spiking together on several days
       [hist |-> << <<100, 0, 10>>, <<100, 0, 10>>, <<108, 8, 35>>, <<100, -7, 40>>,
                    <<109, 9, 45>>, <<101, -7, 20>>, <<101, 0, 10>>, <<101, 0, 10>>,
                    <<101, 0, 10>>, <<101, 0, 10>>, <<101, 0, 10>>, <<101, 0, 10>>,
                    <<101, 0, 10>> >>,
        close |-> 101],
       \* thirteen rising days
       [hist |-> [i \in 1..13 |-> <<100 + i, 1, 10>>], close |-> 115] >>

NeutralZ == <<0, 0, 0, 0, 0>>
NeutralVol == <<50, 0>>

\* The engineered table with the given window shape and latest row.
Table(shape, z, vol, surge) ==
    [i \in 1..Len(shape.hist) |->
        Row(shape.hist[i][1], shape.hist[i][2], shape.hist[i][3],
            NeutralZ, NeutralVol, 0, 0, 50)]
    \o << Row(shape.close, surge[1], surge[4], z, vol, surge[2], surge[3], surge[5]) >>

Tables(nz, nvol, nsurge, nshape) ==
    {Table(sh, z, vol, su) :
        sh \in Range(Prefix(Shapes, nshape)), z \in Range(Prefix(ZProfiles, nz)),
        vol \in Range(Prefix(VolProfiles, nvol)),
        su \in Range(Prefix(SurgeProfiles, nsurge))}

AllTables == Tables(NZ, NVol, NSurge, NShape)

\* sensitivity, in halves: 0.5, 1.0, 2.0
Sensitivities == {1, 2, 4}

---------------------------------------------------------------------------
(* Invocations.  Invocation i = Len(rets) + 1 is the next to run.           *)

Pending == Len(rets) < Len(calls)
Cur == calls[Len(rets) + 1]

\* detect_anomalies(df, news_flag, sensitivity)
DetectCall(df, news_flag, sensitivity) ==
    [fn |-> "detect_anomalies", df |-> df, news_flag |-> news_flag,
     sensitivity |-> sensitivity]

\* combine_predictions(...); anomaly_from names the earlier invocation whose
\* AnomalyResult is passed on (0: the AnomalyResult is given in anomaly_result)
CombineCall(rf_prob, lstm_prob, anomaly_from, anomaly_result, sec_flagged, is_otc, is_micro_cap) ==
    [fn |-> "combine_predictions", rf_prob |-> rf_prob, lstm_prob |-> lstm_prob,
     anomaly_from |-> anomaly_from, anomaly_result |-> anomaly_result,
     sec_flagged |-> sec_flagged, is_otc |-> is_otc, is_micro_cap |-> is_micro_cap]

AnomalyArg(c) == IF c.anomaly_from = 0 THEN c.anomaly_result ELSE rets[c.anomaly_from]

DetectAnomalies ==
    /\ Pending
    /\ Cur.fn = "detect_anomalies"
    /\ rets' = Append(rets, detect_anomalies(Cur.df, Cur.news_flag, Cur.sensitivity))
    /\ UNCHANGED <<rf_available, lstm_available, rf_detector, lstm_detector, calls, running, api_server>>

\* a detector called on its own
DetectorCall(fn, df) == [fn |-> fn, df |-> df]

DetectZscore ==
    /\ Pending
    /\ Cur.fn = "detect_zscore_anomalies"
    /\ rets' = Append(rets, detect_zscore_anomalies(Cur.df))
    /\ UNCHANGED <<rf_available, lstm_available, rf_detector, lstm_detector, calls, running, api_server>>

DetectVolatility ==
    /\ Pending
    /\ Cur.fn = "detect_volatility_anomalies"
    /\ rets' = Append(rets, detect_volatility_anomalies(Cur.df))
    /\ UNCHANGED <<rf_available, lstm_available, rf_detector, lstm_detector, calls, running, api_server>>

DetectSurge ==
    /\ Pending
    /\ Cur.fn = "detect_surge_anomalies"
    /\ rets' = Append(rets, detect_surge_anomalies(Cur.df))
    /\ UNCHANGED <<rf_available, lstm_available, rf_detector, lstm_detector, calls, running, api_server>>

DetectPattern ==
    /\ Pending
    /\ Cur.fn = "detect_pattern_anomalies"
    /\ rets' = Append(rets, detect_pattern_anomalies(Cur.df))
    /\ UNCHANGED <<rf_available, lstm_available, rf_detector, lstm_detector, calls, running, api_server>>

CombinePredictions ==
    /\ Pending
    /\ Cur.fn = "combine_predictions"
    /\ rets' = Append(rets, combine_predictions(Cur.rf_prob, Cur.lstm_prob, AnomalyArg(Cur),
                                                Cur.sec_flagged, Cur.is_otc, Cur.is_micro_cap))
    /\ UNCHANGED <<rf_available, lstm_available, rf_detector, lstm_detector, calls, running, api_server>>

\* analyze(...) on a pipeline instance
AnalyzeCall(ticker, asset_type, price_data, fundamentals, news_flag, use_synthetic, sec_flagged_override) ==
    [fn |-> "analyze", ticker |-> ticker, asset_type |-> asset_type, price_data |-> price_data,
     fundamentals |-> fundamentals, news_flag |-> news_flag,
     use_synthetic |-> use_synthetic, sec_flagged_override |-> sec_flagged_override]

\* What the Random Forest and the LSTM may return (None: the LSTM raises)
RfProbs == {0, 50 * U, 100 * U}
LstmProbs == {None, Some(0), Some(100 * U)}

\* A detector is a fixed function of its input once trained or loaded.  The
\* model keeps of it the pairs <<input, output>> seen so far: a new input may
\* give any output, a repeated one gives what it gave before.
Untrained == {}
Predict_Fresh(detector, input, outputs) == outputs
Predict(detector, input, outputs) ==
    IF \E p \in detector : p[1] = input
    THEN {p[2] : p \in {q \in detector : q[1] = input}}
    ELSE outputs
Seen(detector, input, output) == detector \cup {<<input, output>>}

\* What news verification may find, or None when it raises
Fetched ==
    {None, Some(<<FALSE, FALSE, FALSE>>), Some(<<TRUE, FALSE, FALSE>>),
     Some(<<FALSE, FALSE, TRUE>>), Some(<<TRUE, TRUE, TRUE>>)}

\* One run of analyze(ticker, asset_type, price_data, fundamentals, news_flag,
\* use_synthetic, sec_flagged_override) with price_data and fundamentals given,
\* so that asset_type is only recorded in the context; price_data is the table
\* after feature engineering.  The steps run in program order, each on the
\* values of the ones before.  rf_prob and lstm_prob are what the models
\* return (lstm_prob None when the LSTM is not available or its prediction
\* raises).  An unavailable Random Forest is trained first
\* (train_models(train_rf=True, train_lstm=False)), which replaces the model.
Analyze ==
    /\ Pending
    /\ Cur.fn = "analyze"
    /\ \E sec_flagged \in {EffectiveSecFlag(Cur.ticker, Cur.sec_flagged_override)},
          context \in {[sec_flagged |-> ContextSecFlagged(Cur.ticker, Cur.sec_flagged_override),
                        fundamentals |-> Cur.fundamentals, news_flag |-> Cur.news_flag]},
          feat \in {create_feature_vector(Cur.price_data)},
          anomaly_result \in {detect_anomalies(Cur.price_data, Cur.news_flag, 2)} :
       \E computed_signals \in
              {compute_signals(feat, Cur.fundamentals, sec_flagged, anomaly_result,
                               Cur.price_data)},
          rf_model \in {IF rf_available THEN rf_detector ELSE Untrained},
          features \in {<<feat, Cur.fundamentals, B2I(context.sec_flagged.is_flagged),
                          Cur.news_flag>>},
          fetched \in Fetched :
       \E rf_prob \in Predict(rf_model, features, RfProbs),
          lstm_prob \in (IF lstm_available
                         THEN Predict(lstm_detector, Cur.price_data, LstmProbs)
                         ELSE {None}) :
       \E combined_prob \in
              {combine_predictions(rf_prob, lstm_prob, anomaly_result, sec_flagged,
                                   Get(Cur.fundamentals, "is_otc", FALSE),
                                   IsMicroCap(Cur.fundamentals))} :
            /\ rets' = Append(rets,
                        analyze(Cur.ticker, Cur.use_synthetic, context, feat, sec_flagged,
                                anomaly_result,
                                computed_signals, rf_prob, lstm_prob, combined_prob, fetched))
            /\ rf_detector' = Seen(rf_model, features, rf_prob)
            /\ lstm_detector' = IF lstm_available
                                THEN Seen(lstm_detector, Cur.price_data, lstm_prob)
                                ELSE lstm_detector
    /\ rf_available' = TRUE
    /\ UNCHANGED <<lstm_available, calls, running, api_server>>

\* train_models(train_rf, train_lstm), which replaces the models it trains.
\* Only calls made before the last invocation are followed: a later one
\* changes nothing that is returned.
TrainModels ==
    \E train_rf \in BOOLEAN, train_lstm \in BOOLEAN :
        /\ Pending
        /\ rf_available' = (rf_available \/ train_rf)
        /\ lstm_available' = (lstm_available \/ train_lstm)
        /\ rf_detector' = IF train_rf THEN Untrained ELSE rf_detector
        /\ lstm_detector' = IF train_lstm THEN Untrained ELSE lstm_detector
        /\ UNCHANGED <<calls, rets, running, api_server>>

---------------------------------------------------------------------------
(* SpecDetect: detect_anomalies on two tables, then combine_predictions on   *)
(* each result.                                                              *)

\* The same table analysed without and with a news flag.
NewsPairs ==
    {<<DetectCall(df, FALSE, s), DetectCall(df, TRUE, s)>> :
        df \in AllTables, s \in Sensitivities}

\* The features whose increase the monotonicity property is about, with the
\* values each is raised to.
ZValues == {-60, -45, 0, 30, 45, 90}
RaisedValues ==
    [Price_Change_7d |-> {-120, -60, -40, 2, 20, 60, 120},
     Volume_Surge_Factor |-> {11, 26, 30, 70, 120},
     Return_ZScore_Short |-> ZValues, Return_ZScore_Long |-> ZValues,
     Price_ZScore_Long |-> ZValues,
     Volume_ZScore_Short |-> ZValues, Volume_ZScore_Long |-> ZValues]
MonotoneFeatures == DOMAIN RaisedValues

\* df with column col of its latest row set to v; Pump_Pattern, which feature
\* engineering derives from the 7-day change and the volume surge, follows.
WithFeature(df, col, v) ==
    LET r == [Latest(df) EXCEPT ![col] = v]
        latest == [r EXCEPT !["Pump_Pattern"] =
                      Pump_Pattern(r["Price_Change_7d"], r["Volume_Surge_Factor"])]
    IN  [df EXCEPT ![Len(df)] = latest]

\* What combine_predictions is given besides the AnomalyResult:
\* <<rf_prob, lstm_prob, sec_flagged, is_otc, is_micro_cap>>
CombineContexts ==
    { <<0, None, FALSE, FALSE, FALSE>>,
      <<50 * U, Some(50 * U), FALSE, TRUE, FALSE>>,
      <<30 * U, Some(0), FALSE, TRUE, TRUE>> }

\* Two tables that differ in one feature of the latest row.
RaisedPairs ==
    {<<DetectCall(df, n, s), DetectCall(WithFeature(df, col, v), n, s),
       CombineCall(ctx[1], ctx[2], 1, None, ctx[3], ctx[4], ctx[5]),
       CombineCall(ctx[1], ctx[2], 2, None, ctx[3], ctx[4], ctx[5])>> :
        <<df, col, v>> \in
            {t \in Tables(NZ, 2, NSurge, 2) \X MonotoneFeatures
                   \X UNION {RaisedValues[c] : c \in MonotoneFeatures} :
                t[3] \in RaisedValues[t[2]] /\ t[3] # Latest(t[1])[t[2]]},
        n \in BOOLEAN, s \in Sensitivities, ctx \in CombineContexts}

InitDetect ==
    /\ rf_available = FALSE
    /\ lstm_available = FALSE
    /\ rf_detector = Untrained
    /\ lstm_detector = Untrained
    /\ calls \in NewsPairs \cup RaisedPairs
    /\ rets = <<>>
    /\ running = <<>>
    /\ NotServing

NextDetect == DetectAnomalies \/ CombinePredictions

SpecDetect == InitDetect /\ [][NextDetect]_vars

---------------------------------------------------------------------------
(* Properties of detect_anomalies (SpecDetect) *)

IsNewsPair == Len(calls) = 2 /\ Len(rets) = 2
IsRaisedPair == Len(calls) = 4 /\ Len(rets) = 4
OldRow == Latest(calls[1].df)
NewRow == Latest(calls[2].df)
SignedFeatures ==
    {"Price_Change_7d", "Return_ZScore_Short", "Return_ZScore_Long", "Price_ZScore_Long"}
VolumeFeatures == {"Volume_Surge_Factor", "Volume_ZScore_Short", "Volume_ZScore_Long"}

\* the second row has the larger value of the feature the rows differ in
ValueRaised == \A c \in MonotoneFeatures : OldRow[c] <= NewRow[c]

\* the second row has the larger magnitude, with the sign kept, of a signed
\* feature, or the larger value of a volume feature
MagnitudeRaised ==
    /\ \A c \in SignedFeatures :
          Abs(OldRow[c]) <= Abs(NewRow[c]) /\ OldRow[c] * NewRow[c] >= 0
    /\ \A c \in VolumeFeatures : OldRow[c] <= NewRow[c]

\* both tables' scores lie on the same side of the news dampening threshold
SameSideOfDampening ==
    (ScaledScore(calls[1].df, calls[1].sensitivity) > 30 * U)
        <=> (ScaledScore(calls[2].df, calls[2].sensitivity) > 30 * U)

\* C7 as stated: a larger value of one surge, volume or z-score feature never
\* yields a smaller anomaly_score or combined_probability, for every news_flag
\* and sensitivity.
C7_MonotoneInValue ==
    (IsRaisedPair /\ ValueRaised) =>
        (rets[1].anomaly_score <= rets[2].anomaly_score /\ rets[3] <= rets[4])

\* C7 amended: a larger magnitude (sign kept) of Price_Change_7d or of a
\* return/price z-score, or a larger value of Volume_Surge_Factor or of a volume
\* z-score, never yields a smaller anomaly_score or combined_probability when
\* news_flag is false, nor when news_flag is true and both tables' scaled scores
\* lie on the same side of the 0.3 dampening threshold.
C7_MonotoneInMagnitude ==
    (IsRaisedPair /\ MagnitudeRaised
        /\ (~calls[1].news_flag \/ SameSideOfDampening)) =>
        (rets[1].anomaly_score <= rets[2].anomaly_score /\ rets[3] <= rets[4])

\* a negative 7-day change grows in magnitude under a news flag and both the
\* anomaly score and the combined probability rise
C7_Witness ==
    /\ IsRaisedPair /\ MagnitudeRaised /\ calls[1].news_flag /\ SameSideOfDampening
    /\ NewRow["Price_Change_7d"] < OldRow["Price_Change_7d"]
    /\ rets[1].anomaly_score < rets[2].anomaly_score
    /\ rets[3] < rets[4]

KeptByNews(t) == t \notin {"daily_price_surge", "weekly_price_pump"}

\* C8: for one table, when the score without news exceeds 0.3 the score with
\* news is exactly 0.6 times it and the tags are those without news minus
\* daily_price_surge and weekly_price_pump, in the same order; otherwise the
\* news flag changes neither the score nor the tags.
C8_NewsDampening ==
    IsNewsPair =>
        IF rets[1].anomaly_score > 30 * U
        THEN /\ 10 * rets[2].anomaly_score = 6 * rets[1].anomaly_score
             /\ rets[2].anomaly_types = SelectSeq(rets[1].anomaly_types, KeptByNews)
        ELSE /\ rets[2].anomaly_score = rets[1].anomaly_score
             /\ rets[2].anomaly_types = rets[1].anomaly_types

\* a dampened table that loses its weekly_price_pump tag and keeps others
C8_Witness ==
    /\ IsNewsPair
    /\ rets[1].anomaly_score > 30 * U
    /\ InSeq("weekly_price_pump", rets[1].anomaly_types)
    /\ Len(rets[2].anomaly_types) < Len(rets[1].anomaly_types)
    /\ Len(rets[2].anomaly_types) > 0
    /\ rets[2].anomaly_score < rets[1].anomaly_score

---------------------------------------------------------------------------
(* SpecCombine: combine_predictions on the results detect_anomalies can      *)
(* produce, run twice with the second run's model outputs not below the      *)
(* first's.                                                                  *)

AnomalyResults ==
    {detect_anomalies(df, n, s) :
        df \in Tables(NZ, 2, NSurge, 2), n \in BOOLEAN, s \in {2, 4}}

\* lstm_prob b is a at least: both absent, or both present with a <= b
LstmAtLeast(a, b) ==
    IF a = None \/ b = None THEN a = b ELSE a[1] <= b[1]

CombinePairs ==
    {<<CombineCall(rf[1], lstm[1], 0, ar, sec, otc, micro),
       CombineCall(rf[2], lstm[2], 0, ar, sec, otc, micro)>> :
        rf \in {r \in RfProbs \X RfProbs : r[1] <= r[2]},
        lstm \in {l \in LstmProbs \X LstmProbs : LstmAtLeast(l[1], l[2])},
        ar \in AnomalyResults,
        sec \in BOOLEAN, otc \in BOOLEAN, micro \in BOOLEAN}

InitCombine ==
    /\ rf_available = FALSE
    /\ lstm_available = FALSE
    /\ rf_detector = Untrained
    /\ lstm_detector = Untrained
    /\ calls \in CombinePairs
    /\ rets = <<>>
    /\ running = <<>>
    /\ NotServing

NextCombine == CombinePredictions

SpecCombine == InitCombine /\ [][NextCombine]_vars

---------------------------------------------------------------------------
(* Properties of combine_predictions (SpecCombine) *)

Returned(i) == Len(rets) >= i

\* C2: the value combine_predictions returns lies in [0, 1].
C2_CombinedInUnitInterval ==
    \A i \in 1..Len(rets) : rets[i] >= 0 /\ rets[i] <= SCALE

\* an SEC-flagged call with a full-scale model output and a saturated anomaly
\* score has returned
C2_Witness ==
    /\ Returned(1)
    /\ calls[1].sec_flagged
    /\ calls[1].rf_prob = SCALE
    /\ calls[1].anomaly_result.anomaly_score > 50 * U
    /\ rets[1] >= 85 * U

\* C5: the result is at least min(anomaly_score, 1), and with the other
\* arguments fixed it does not decrease when rf_prob or lstm_prob increases.
C5_AnomalyFloorAndMlMonotone ==
    /\ \A i \in 1..Len(rets) :
          rets[i] >= Min(calls[i].anomaly_result.anomaly_score, SCALE)
    /\ Returned(2) => rets[1] <= rets[2]

\* the model outputs lie below the anomaly score in the first run and above it
\* in the second, which returns more than the first
C5_Witness ==
    /\ Returned(2)
    /\ MlProb(calls[1].rf_prob, calls[1].lstm_prob) < calls[1].anomaly_result.anomaly_score
    /\ rets[1] = calls[1].anomaly_result.anomaly_score
    /\ calls[2].lstm_prob # None
    /\ rets[1] < rets[2]

\* The floors as the property lists them, each with its predicate.
ListedFloors(c) ==
    LET ar == c.anomaly_result
        severe == \E t \in {"pump_and_dump_pattern", "pump_pattern_detected",
                           "extreme_volume_explosion", "extreme_weekly_price_move",
                           "coordinated_volume_price_activity", "extreme_volatility"} :
                      InSeq(t, ar.anomaly_types)
        change7d == ar.details.surge_analysis.price_change_7d
        surge == ar.details.surge_analysis.volume_surge_factor
        factors == B2I(c.is_otc) + B2I(c.is_micro_cap) + B2I(severe)
                   + B2I(ar.is_anomaly) + B2I(c.sec_flagged)
    IN  (IF c.sec_flagged THEN {85 * U} ELSE {})
        \cup (IF c.is_otc /\ (Abs(change7d) > 1500 \/ surge > 25) THEN {45 * U} ELSE {})
        \cup (IF c.is_otc /\ c.is_micro_cap THEN {50 * U} ELSE {})
        \cup (IF severe THEN {65 * U} ELSE {})
        \cup (IF severe /\ c.is_otc THEN {75 * U} ELSE {})
        \cup (IF severe /\ c.is_otc /\ c.is_micro_cap THEN {80 * U} ELSE {})
        \cup (IF severe /\ c.is_micro_cap THEN {70 * U} ELSE {})
        \cup (IF factors >= 3 THEN {70 * U} ELSE {})
        \cup (IF factors >= 4 THEN {80 * U} ELSE {})

ListedBase(c) ==
    LET a == c.anomaly_result.anomaly_score
        ml == IF c.lstm_prob = None THEN c.rf_prob
              ELSE (c.rf_prob + c.lstm_prob[1]) \div 2
    IN  Max(a, (7 * a + 3 * ml) \div 10)

\* Other orders of n statements: the reverse, the rotations and the
\* exchanges of two neighbours.
Orders(n) ==
    {[i \in 1..n |-> n + 1 - i]}
    \cup {[i \in 1..n |-> ((i + k - 1) % n) + 1] : k \in 1..(n - 1)}
    \cup {[i \in 1..n |-> IF i = k THEN k + 1 ELSE IF i = k + 1 THEN k ELSE i] :
            k \in 1..(n - 1)}

Reordered(floors, order) == [i \in 1..Len(floors) |-> floors[order[i]]]

\* C6: the result is min(1, max(base, every listed floor whose predicate
\* holds)), and running the floor statements in another order gives the same
\* result.
C6_FloorCascade ==
    \A i \in 1..Len(rets) :
        LET c == calls[i]
            floors == FloorCascade(c.anomaly_result, c.sec_flagged, c.is_otc, c.is_micro_cap)
        IN  /\ rets[i] = Min(SCALE, SetMax({ListedBase(c)} \cup ListedFloors(c)))
            /\ \A order \in Orders(Len(floors)) :
                  Min(ApplyFloors(BlendWithAnomaly(c.rf_prob, c.lstm_prob, c.anomaly_result),
                                  Reordered(floors, order)), SCALE) = rets[i]

\* three risk factors without a severe pattern or an SEC flag: the result is
\* the 0.70 floor, above the base and the 0.50 of the structure
C6_Witness ==
    /\ Returned(1)
    /\ calls[1].is_otc /\ calls[1].is_micro_cap /\ ~calls[1].sec_flagged
    /\ calls[1].anomaly_result.is_anomaly
    /\ ~HasSeverePattern(calls[1].anomaly_result)
    /\ ListedBase(calls[1]) < 70 * U
    /\ rets[1] = 70 * U

---------------------------------------------------------------------------
(* Spec: one analyze call on a pipeline whose models may or may not have     *)
(* been loaded.                                                              *)

NFund == 4

\* fundamentals dictionaries; a key may be missing
FundProfiles ==
    << [current_price |-> 40000, market_cap |-> 2500000, avg_daily_volume |-> 50000,
        is_otc |-> FALSE, exchange |-> "NASDAQ"],
       [current_price |-> 50, market_cap |-> 8, avg_daily_volume |-> 80,
        is_otc |-> TRUE, exchange |-> "OTC"],
       [current_price |-> 0, exchange |-> "pink"],
       [current_price |-> 300, market_cap |-> 30, avg_daily_volume |-> 500,
        is_otc |-> FALSE, exchange |-> "NYSE"],
       [current_price |-> 1000, market_cap |-> 200, avg_daily_volume |-> 100,
        is_otc |-> FALSE, exchange |-> "nasdaq"] >>

\* <<ticker, sec_flagged_override>>
TickerOverrides ==
    {<<"AAPL", None>>, <<"scam", None>>, <<"AAPL", Some(TRUE)>>, <<"scam", Some(FALSE)>>}

\* the tables analysed: latest rows over a flat and a pump-and-dump window, and
\* two quiet tables with one weak signal each (a 1.5 z-score, a 6% ATR), and
\* one with values in the middle tiers (a -2.5 z-score, a 40% fall in 7 days)
AnalyzeTables ==
    Tables(2, 2, NSurge, 2)
    \cup {Table(Shapes[1], ZProfiles[6], NeutralVol, SurgeProfiles[1]),
          Table(Shapes[1], NeutralZ, VolProfiles[3], SurgeProfiles[1]),
          Table(Shapes[1], ZProfiles[7], NeutralVol, SurgeProfiles[6])}

AnalyzeCalls ==
    {<<AnalyzeCall(t[1], "stock", df, f, n, syn, t[2])>> :
        t \in TickerOverrides, df \in AnalyzeTables,
        f \in Range(Prefix(FundProfiles, NFund)),
        n \in BOOLEAN, syn \in BOOLEAN}

Init ==
    /\ rf_available \in BOOLEAN
    /\ lstm_available \in BOOLEAN
    /\ rf_detector = Untrained
    /\ lstm_detector = Untrained
    /\ calls \in AnalyzeCalls
    /\ rets = <<>>
    /\ running = <<>>
    /\ NotServing

Next == Analyze \/ TrainModels

Spec == Init /\ [][Next]_vars

---------------------------------------------------------------------------
(* Properties of analyze (Spec) *)

Severity(level) == CASE level = "LOW" -> 0 [] level = "MEDIUM" -> 1 [] level = "HIGH" -> 2

\* news verification ran and recommended a lower level
Reduced(r) == r.news_verification # None /\ r.news_verification[1].should_reduce_risk

HasSevereTag(r) ==
    \E t \in {"pump_and_dump_pattern", "pump_pattern_detected", "extreme_volume_explosion",
              "extreme_weekly_price_move", "coordinated_volume_price_activity",
              "extreme_volatility"} : InSeq(t, r.anomaly_types)

\* C1 as stated: an effective SEC flag gives risk_level HIGH and
\* combined_probability >= 0.85, whatever the other inputs and whatever news
\* verification finds.
C1_SecFlagForcesHigh ==
    \A i \in 1..Len(rets) :
        rets[i].sec_flagged =>
            (rets[i].risk_level = "HIGH" /\ rets[i].combined_probability >= 85 * U)

OtcMicroCapSevere(i) ==
    /\ Get(calls[i].fundamentals, "is_otc", FALSE)
    /\ "market_cap" \in DOMAIN calls[i].fundamentals
    /\ calls[i].fundamentals.market_cap < 50
    /\ HasSevereTag(rets[i])
    /\ ~rets[i].sec_flagged
    /\ ~calls[i].news_flag

LargeCapQuiet(i) ==
    /\ calls[i].fundamentals = FundProfiles[1]
    /\ calls[i].price_data = Table(Shapes[1], NeutralZ, NeutralVol, SurgeProfiles[1])
    /\ ~rets[i].sec_flagged
    /\ calls[i].news_flag

\* C10 as stated: in the large-cap scenario no severe-pattern floor applies and
\* risk_level is LOW for every rf_prob and lstm_prob.
C10_LargeCapLow ==
    \A i \in 1..Len(rets) :
        LargeCapQuiet(i) => (~HasSevereTag(rets[i]) /\ rets[i].risk_level = "LOW")

\* the blend of the model outputs reported in an assessment
ReportedMl(r) ==
    IF r.lstm_probability = None THEN r.rf_probability
    ELSE (r.rf_probability + r.lstm_probability[1]) \div 2

\* C10 amended: in the large-cap scenario no severe-pattern floor applies, the
\* combined probability is max(a, 0.7 a + 0.3 ml) with a the anomaly score, and
\* risk_level is LOW when that is below 0.3 and MEDIUM otherwise, never HIGH.
C10_LargeCapLowOrMedium ==
    \A i \in 1..Len(rets) :
        LargeCapQuiet(i) =>
            LET r == rets[i]
                a == r.anomaly_score
                blend == (7 * a + 3 * ReportedMl(r)) \div 10
            IN  /\ ~HasSevereTag(r)
                /\ r.combined_probability = Max(a, blend)
                /\ r.risk_level = IF Max(a, blend) < 30 * U THEN "LOW" ELSE "MEDIUM"

\* the scenario with a Random Forest output of 1.0 and no LSTM is MEDIUM
C10_Witness ==
    /\ Returned(1)
    /\ LargeCapQuiet(1)
    /\ rets[1].rf_probability = SCALE /\ rets[1].lstm_probability = None
    /\ rets[1].combined_probability >= 30 * U
    /\ rets[1].risk_level = "MEDIUM"

---------------------------------------------------------------------------
(* SpecAnalyzePair: two analyze calls on one pipeline.                       *)

PairTables ==
    {Table(Shapes[1], NeutralZ, NeutralVol, SurgeProfiles[1]),
     Table(Shapes[2], NeutralZ, NeutralVol, SurgeProfiles[1]),
     Table(Shapes[1], NeutralZ, VolProfiles[2], SurgeProfiles[1]),
     Table(Shapes[1], NeutralZ, NeutralVol, SurgeProfiles[2])}

PairCalls ==
    {AnalyzeCall(t, "stock", df, f, FALSE, syn, None) :
        t \in {"AAPL", "scam"}, df \in PairTables,
        f \in {FundProfiles[1], FundProfiles[2]}, syn \in BOOLEAN}

InitAnalyzePair ==
    /\ rf_available = TRUE
    /\ lstm_available = FALSE
    /\ rf_detector = Untrained
    /\ lstm_detector = Untrained
    /\ calls \in {<<a, b>> : a \in PairCalls, b \in PairCalls}
    /\ rets = <<>>
    /\ running = <<>>
    /\ NotServing

NextAnalyzePair == Analyze

SpecAnalyzePair == InitAnalyzePair /\ [][NextAnalyzePair]_vars

---------------------------------------------------------------------------
(* Properties of the signal verdict and the signal extractor (Spec) *)

HasAlertSignal(r) == \E k \in 1..Len(r.signals) : r.signals[k].category = "ALERT"
WeightSum(r) == SumSeq([k \in 1..Len(r.signals) |-> r.signals[k].weight])

\* C11: the signal verdict is HIGH if a signal has category ALERT or the weights
\* sum to 5 or more, MEDIUM if there is no ALERT signal and the sum is 2, 3 or 4,
\* LOW if there is no ALERT signal and the sum is below 2.
C11_SignalVerdict ==
    \A i \in 1..Len(rets) :
        LET r == rets[i]
        IN  /\ r.signal_total_score = WeightSum(r)
            /\ r.signal_risk_level =
                   IF HasAlertSignal(r) \/ WeightSum(r) >= 5 THEN "HIGH"
                   ELSE IF WeightSum(r) >= 2 THEN "MEDIUM"
                   ELSE "LOW"

\* a run whose weights sum to exactly 2, without an ALERT signal, is MEDIUM
C11_Witness ==
    /\ Returned(1)
    /\ ~HasAlertSignal(rets[1])
    /\ WeightSum(rets[1]) = 2
    /\ rets[1].signal_risk_level = "MEDIUM"

---------------------------------------------------------------------------
(* SpecAssetClass: one analyze call for a stock or for a crypto asset.       *)

\* config.CRYPTO_RISK_THRESHOLDS, percent
CRYPTO_RISK_LOW == 25
CRYPTO_RISK_MEDIUM == 60

AssetTypes == {"stock", "crypto"}

AssetClassCalls ==
    {<<AnalyzeCall(t, a, df, f, FALSE, syn, None)>> :
        t \in {"AAPL", "scam"}, a \in AssetTypes, df \in PairTables,
        f \in {FundProfiles[1], FundProfiles[2]}, syn \in BOOLEAN}

InitAssetClass ==
    /\ rf_available \in BOOLEAN
    /\ lstm_available \in BOOLEAN
    /\ rf_detector = Untrained
    /\ lstm_detector = Untrained
    /\ calls \in AssetClassCalls
    /\ rets = <<>>
    /\ running = <<>>
    /\ NotServing

NextAssetClass == Analyze

SpecAssetClass == InitAssetClass /\ [][NextAssetClass]_vars

\* the verdict of the bands (low_t, med_t), percent
BandVerdict(probability, low_t, med_t) ==
    IF probability < low_t * U THEN "LOW"
    ELSE IF probability < med_t * U THEN "MEDIUM" ELSE "HIGH"

\* C12: the probability-based verdict uses the thresholds of the asset's
\* class: LOW iff the probability is below LOW_T, HIGH iff it is at least
\* MED_T, MEDIUM otherwise, with (0.3, 0.7) for asset_type 'stock' and
\* (0.25, 0.60) for asset_type 'crypto'.
C12_ThresholdsOfAssetClass ==
    \A i \in 1..Len(rets) :
        rets[i].ml_risk_level =
            IF calls[i].asset_type = "crypto"
            THEN BandVerdict(rets[i].combined_probability, CRYPTO_RISK_LOW, CRYPTO_RISK_MEDIUM)
            ELSE BandVerdict(rets[i].combined_probability, RISK_LOW, RISK_MEDIUM)

---------------------------------------------------------------------------
(* SpecAnalyzeTwice: analyze called twice on one pipeline with the same     *)
(* arguments; the models may or may not have been loaded.                   *)

TwiceCalls ==
    {AnalyzeCall(t, "stock", df, f, n, syn, None) :
        t \in {"AAPL", "scam"}, df \in PairTables,
        f \in {FundProfiles[1], FundProfiles[2]}, n \in BOOLEAN, syn \in BOOLEAN}

InitAnalyzeTwice ==
    /\ rf_available \in BOOLEAN
    /\ lstm_available \in BOOLEAN
    /\ rf_detector = Untrained
    /\ lstm_detector = Untrained
    /\ calls \in {<<c, c>> : c \in TwiceCalls}
    /\ rets = <<>>
    /\ running = <<>>
    /\ NotServing

NextAnalyzeTwice == Analyze

SpecAnalyzeTwice == InitAnalyzeTwice /\ [][NextAnalyzeTwice]_vars

\* the fields of an assessment that news verification (step 9) does not set
BeforeVerification(r) ==
    [f \in DOMAIN r \ {"risk_level", "news_verification", "key_indicators"} |-> r[f]]

---------------------------------------------------------------------------
(* Properties of the signal extractor (Spec).                                *)

\* the tiers of each tiered family: <<condition met, weight>>
FamilyTiers(feat) ==
    LET price_z == MaxOfSeq(<<Abs(feat.return_zscore_short), Abs(feat.return_zscore_long),
                              Abs(feat.price_zscore_long)>>)
    IN  [SPIKE_7D |-> {<<Abs(feat.price_change_7d) >= 25, 3>>,
                       <<Abs(feat.price_change_7d) >= 50, 4>>},
         VOLUME_EXPLOSION |-> {<<feat.volume_surge_factor >= 30, 2>>,
                               <<feat.volume_surge_factor >= 50, 3>>},
         PRICE_ANOMALY |-> {<<price_z >= 15, 2>>, <<price_z >= 20, 3>>, <<price_z >= 30, 4>>},
         OVERBOUGHT_RSI |-> {<<feat.rsi_14 > 70, 1>>, <<feat.rsi_14 > 80, 2>>},
         HIGH_VOLATILITY |-> {<<feat.atr_percent > 50, 1>>, <<feat.atr_percent > 100, 2>>}]

MetWeights(feat, code) == {t[2] : t \in {u \in FamilyTiers(feat)[code] : u[1]}}
SignalsOf(r, code) == {k \in 1..Len(r.signals) : r.signals[k].code = code}
FeaturesOf(i) == create_feature_vector(calls[i].price_data)

\* C14: compute_signals never returns two signals with the same code; in
\* every tiered family at most one signal fires, and it is the highest-weight
\* tier whose condition the feature value meets.
C14_OneSignalPerCode ==
    \A i \in 1..Len(rets) :
        LET r == rets[i]
            feat == FeaturesOf(i)
        IN  /\ \A a \in 1..Len(r.signals), b \in 1..Len(r.signals) :
                    r.signals[a].code = r.signals[b].code => a = b
            /\ \A code \in DOMAIN FamilyTiers(feat) :
                    IF MetWeights(feat, code) = {} THEN SignalsOf(r, code) = {}
                    ELSE \E k \in 1..Len(r.signals) :
                            /\ SignalsOf(r, code) = {k}
                            /\ r.signals[k].weight = SetMax(MetWeights(feat, code))

\* a run in which two tiers of one family and only the lower tier of another
\* are met
C14_Witness ==
    /\ Returned(1)
    /\ \E code \in DOMAIN FamilyTiers(FeaturesOf(1)) :
            Cardinality(MetWeights(FeaturesOf(1), code)) >= 2
    /\ \E code \in DOMAIN FamilyTiers(FeaturesOf(1)) :
            /\ Cardinality(MetWeights(FeaturesOf(1), code)) = 1
            /\ Cardinality(FamilyTiers(FeaturesOf(1))[code]) >= 2

---------------------------------------------------------------------------
(* SpecNonFinite: combine_predictions on model outputs that may be NaN or   *)
(* infinite.                                                                 *)

NonFinite == {NaN, Inf, -Inf}

NonFiniteCalls ==
    {<<CombineCall(rf, lstm, 0, ar, sec, otc, micro)>> :
        rf \in RfProbs \cup NonFinite,
        lstm \in LstmProbs \cup {Some(x) : x \in NonFinite},
        ar \in AnomalyResults,
        sec \in BOOLEAN, otc \in BOOLEAN, micro \in BOOLEAN}

InitNonFinite ==
    /\ rf_available = FALSE
    /\ lstm_available = FALSE
    /\ rf_detector = Untrained
    /\ lstm_detector = Untrained
    /\ calls \in NonFiniteCalls
    /\ rets = <<>>
    /\ running = <<>>
    /\ NotServing

NextNonFinite == CombinePredictions

SpecNonFinite == InitNonFinite /\ [][NextNonFinite]_vars

HasNonFiniteProb(c) ==
    ~IsFinite(c.rf_prob) \/ (c.lstm_prob # None /\ ~IsFinite(c.lstm_prob[1]))

\* C15: if rf_prob or lstm_prob passed to combine_predictions is NaN or
\* infinite, the call ends in an error and returns no probability; it never
\* returns a finite combined probability.
C15_NonFiniteNeverReturnsFinite ==
    \A i \in 1..Len(rets) :
        HasNonFiniteProb(calls[i]) => ~IsFinite(rets[i])

---------------------------------------------------------------------------
(* SpecDetectors: each detector, and detect_anomalies, called on a table     *)
(* that is short, lacks columns, or is complete.                             *)

Detectors ==
    {"detect_zscore_anomalies", "detect_volatility_anomalies",
     "detect_surge_anomalies", "detect_pattern_anomalies"}

\* the columns each detector reads
ColumnsRead ==
    [detect_zscore_anomalies |->
        {"Return_ZScore_Short", "Return_ZScore_Long", "Price_ZScore_Long",
         "Volume_ZScore_Short", "Volume_ZScore_Long"},
     detect_volatility_anomalies |->
        {"Keltner_Position", "Keltner_Breakout_Upper", "Keltner_Breakout_Lower",
         "ATR_Percent"},
     detect_surge_anomalies |->
        {"Price_Change_1d", "Price_Change_7d", "Price_Change_30d",
         "Volume_Surge_Factor", "Pump_Pattern"},
     detect_pattern_anomalies |->
        {"Price_Change_7d", "Close", "Volume_Surge_Factor", "Price_Change_1d", "Return"}]

\* the default a detector takes for an absent column of the latest row
NeutralDefault(col) ==
    IF col = "Keltner_Position" THEN 50
    ELSE IF col = "Volume_Surge_Factor" THEN 10
    ELSE 0

\* df without the columns cols, and the last n rows of df
Drop(df, cols) == [i \in 1..Len(df) |-> [c \in DOMAIN df[i] \ cols |-> df[i][c]]]
LastRows(df, n) == [i \in 1..Min(n, Len(df)) |-> df[Len(df) - Min(n, Len(df)) + i]]

BaseTables ==
    {Table(Shapes[1], NeutralZ, NeutralVol, SurgeProfiles[1]),
     Table(Shapes[2], ZProfiles[2], VolProfiles[2], SurgeProfiles[2]),
     Table(Shapes[4], ZProfiles[3], VolProfiles[4], SurgeProfiles[3])}

VolatilityTables ==
    {Table(Shapes[1], NeutralZ, vol, SurgeProfiles[1]) : vol \in Range(VolProfiles)}

DetectorCalls ==
    UNION {{<<DetectorCall(fn, Drop(df, cols))>> :
               df \in BaseTables, cols \in SUBSET ColumnsRead[fn]} : fn \in Detectors}
    \cup {<<DetectorCall(fn, LastRows(df, n))>> :
        fn \in Detectors, df \in BaseTables, n \in 0..(lookback - 1)}
    \cup {<<DetectorCall("detect_volatility_anomalies", df)>> : df \in VolatilityTables}
    \cup {<<DetectCall(LastRows(df, n), news, 2)>> :
        df \in BaseTables, n \in 0..(lookback + 1), news \in BOOLEAN}
    \cup {<<DetectCall(Drop(df, cols), FALSE, 2)>> :
        df \in BaseTables, cols \in SUBSET ColumnsRead["detect_pattern_anomalies"]}

InitDetectors ==
    /\ rf_available = FALSE
    /\ lstm_available = FALSE
    /\ rf_detector = Untrained
    /\ lstm_detector = Untrained
    /\ calls \in DetectorCalls
    /\ rets = <<>>
    /\ running = <<>>
    /\ NotServing

NextDetectors ==
    DetectZscore \/ DetectVolatility \/ DetectSurge \/ DetectPattern \/ DetectAnomalies

SpecDetectors == InitDetectors /\ [][NextDetectors]_vars

\* C16: for every table with fewer rows than the lookback, the empty table
\* included, detect_pattern_anomalies returns is_anomaly false, score 0, no
\* tags and an explanatory note, and detect_anomalies returns an AnomalyResult
\* instead of raising.
C16_ShortTableNoOp ==
    \A i \in 1..Len(rets) :
        Len(calls[i].df) < lookback =>
            /\ calls[i].fn = "detect_pattern_anomalies" =>
                    /\ ~Raised(rets[i])
                    /\ rets[i].is_anomaly = FALSE
                    /\ rets[i].anomaly_score = 0
                    /\ rets[i].anomaly_types = <<>>
                    /\ "pattern_info" \in DOMAIN rets[i]
            /\ calls[i].fn = "detect_anomalies" => ~Raised(rets[i])

\* the detector fn applied to df
Apply(fn, df) ==
    IF fn = "detect_zscore_anomalies" THEN detect_zscore_anomalies(df)
    ELSE IF fn = "detect_volatility_anomalies" THEN detect_volatility_anomalies(df)
    ELSE IF fn = "detect_surge_anomalies" THEN detect_surge_anomalies(df)
    ELSE detect_pattern_anomalies(df)

\* C17: each of the four detectors is total: on a table with at least
\* lookback rows in which any subset of the columns it reads is absent it
\* returns without raising, and a detector of the latest row returns what it
\* returns when the absent columns hold their neutral defaults.
C17_DetectorsTotal ==
    \A i \in 1..Len(rets) :
        (calls[i].fn \in Detectors /\ Len(calls[i].df) >= lookback) =>
            /\ ~Raised(rets[i])
            /\ calls[i].fn # "detect_pattern_anomalies" =>
                    LET all == ColumnsRead[calls[i].fn]
                        full == [r \in 1..Len(calls[i].df) |->
                                    [c \in all |-> Get(calls[i].df[r], c, NeutralDefault(c))]]
                    IN  rets[i] = Apply(calls[i].fn, full)

\* C20: the volatility score is the average of two components each clamped
\* to 1 before averaging, (min(|position - 0.5| * 2, 1) + min(atr / 10, 1)) / 2.
C20_ClampedBeforeAveraging ==
    \A i \in 1..Len(rets) :
        (calls[i].fn = "detect_volatility_anomalies" /\ ~Raised(rets[i])) =>
            LET latest == Latest(calls[i].df)
                position == Get(latest, "Keltner_Position", 50)
                atr == Get(latest, "ATR_Percent", 0)
            IN  rets[i].anomaly_score
                    = (Min(Abs(position - 50) * 2 * U, SCALE) + Min(atr * U, SCALE)) \div 2

\* C20, amended: the volatility score is the average of |position - 0.5| * 2
\* and min(atr / 10, 1), clamped to 1 after averaging; it equals the average
\* of the two clamped components when the position lies within [0, 1] and is
\* never below it.
C20_ClampedAfterAveraging ==
    \A i \in 1..Len(rets) :
        (calls[i].fn = "detect_volatility_anomalies" /\ ~Raised(rets[i])) =>
            LET latest == Latest(calls[i].df)
                position == Get(latest, "Keltner_Position", 50)
                atr == Get(latest, "ATR_Percent", 0)
                deviation == Abs(position - 50) * 2 * U
                factor == Min(atr * U, SCALE)
                clamped == (Min(deviation, SCALE) + factor) \div 2
            IN  /\ rets[i].anomaly_score = Min((deviation + factor) \div 2, SCALE)
                /\ rets[i].anomaly_score >= clamped
                /\ (0 <= position /\ position <= 100) => rets[i].anomaly_score = clamped

C20_Witness ==
    /\ Returned(1)
    /\ calls[1].fn = "detect_volatility_anomalies"
    /\ ~Raised(rets[1])
    /\ Latest(calls[1].df).Keltner_Position = -30
    /\ Latest(calls[1].df).ATR_Percent = 20
    /\ rets[1].anomaly_score = 90 * U

---------------------------------------------------------------------------
(* The upstream SEC flag (Spec).                                             *)

\* C18: a sec_flagged_override replaces the internal SEC-list result in
\* every later use: the feature vector's sec_flagged feature, the ALERT
\* signal, the 0.85 floor and the risk-factor count of combine_predictions,
\* the SEC indicator of the explanation and RiskAssessment.sec_flagged, also
\* for a ticker on the internal list when the override is False.
C18_OverrideReplacesList ==
    \A i \in 1..Len(rets) :
        calls[i].sec_flagged_override # None =>
            LET r == rets[i]
                flag == calls[i].sec_flagged_override[1]
            IN  /\ r.sec_flagged = flag
                /\ r.detailed_report.contextual_flags.sec_flagged = flag
                /\ r.detailed_report.feature_highlights.sec_flagged = B2I(flag)
                /\ HasAlertSignal(r) = flag
                /\ InSeq("SEC regulatory alert", r.key_indicators) = flag
                /\ r.combined_probability =
                       combine_predictions(
                           r.rf_probability, r.lstm_probability,
                           detect_anomalies(calls[i].price_data, calls[i].news_flag, 2),
                           flag, Get(calls[i].fundamentals, "is_otc", FALSE),
                           IsMicroCap(calls[i].fundamentals))

\* a ticker on the internal list, cleared by the upstream flag
C18_Witness ==
    /\ Returned(1)
    /\ check_sec_flagged_list(calls[1].ticker).is_flagged
    /\ calls[1].sec_flagged_override = Some(FALSE)
    /\ ~rets[1].sec_flagged
    /\ rets[1].combined_probability < 85 * U
    /\ rets[1].risk_level = "LOW"

---------------------------------------------------------------------------
(* SpecConcurrent: two analyze invocations for different assets run          *)
(* concurrently on one pipeline.  An invocation is followed through the      *)
(* statements of analyze that touch the pipeline: the test of rf_available,  *)
(* train_models, and the predictions with everything after them.             *)

Invocation == [pc |-> "check_rf", reads |-> {}, writes |-> {}, ret |-> None]

ConcurrentCalls ==
    {<<AnalyzeCall("AAPL", "stock", a, FundProfiles[1], FALSE, TRUE, None),
       AnalyzeCall("scam", "stock", b, FundProfiles[2], FALSE, TRUE, None)>> :
        a \in PairTables, b \in PairTables}

InitConcurrent ==
    /\ rf_available \in BOOLEAN
    /\ lstm_available \in BOOLEAN
    /\ rf_detector = Untrained
    /\ lstm_detector = Untrained
    /\ calls \in ConcurrentCalls
    /\ rets = <<>>
    /\ running = [i \in 1..2 |-> Invocation]
    /\ NotServing

\* "if self.rf_available:"
AnalyzeCheckRf ==
    \E i \in DOMAIN running :
        /\ running[i].pc = "check_rf"
        /\ running' = [running EXCEPT
                ![i].pc = IF rf_available THEN "predict" ELSE "train",
                ![i].reads = @ \cup {"rf_available"}]
        /\ UNCHANGED <<rf_available, lstm_available, rf_detector, lstm_detector, calls, rets, api_server>>

\* "self.train_models(train_rf=True, train_lstm=False, save_models=True)"
AnalyzeTrainRf ==
    \E i \in DOMAIN running :
        /\ running[i].pc = "train"
        /\ rf_detector' = Untrained
        /\ rf_available' = TRUE
        /\ running' = [running EXCEPT
                ![i].pc = "predict",
                ![i].writes = @ \cup {"rf_detector", "rf_available"}]
        /\ UNCHANGED <<lstm_available, lstm_detector, calls, rets, api_server>>

\* the predictions and the rest of analyze, up to the return
AnalyzeReturn ==
    \E i \in DOMAIN running :
        /\ running[i].pc = "predict"
        /\ \E c \in {calls[i]} :
           \E sec_flagged \in {EffectiveSecFlag(c.ticker, c.sec_flagged_override)},
              context \in {[sec_flagged |-> ContextSecFlagged(c.ticker, c.sec_flagged_override),
                            fundamentals |-> c.fundamentals, news_flag |-> c.news_flag]},
              feat \in {create_feature_vector(c.price_data)},
              anomaly_result \in {detect_anomalies(c.price_data, c.news_flag, 2)} :
           \E computed_signals \in
                  {compute_signals(feat, c.fundamentals, sec_flagged, anomaly_result,
                                   c.price_data)},
              features \in {<<feat, c.fundamentals, B2I(context.sec_flagged.is_flagged),
                              c.news_flag>>},
              fetched \in Fetched :
           \E rf_prob \in Predict(rf_detector, features, RfProbs),
              lstm_prob \in (IF lstm_available
                             THEN Predict(lstm_detector, c.price_data, LstmProbs)
                             ELSE {None}) :
           \E combined_prob \in
                  {combine_predictions(rf_prob, lstm_prob, anomaly_result, sec_flagged,
                                       Get(c.fundamentals, "is_otc", FALSE),
                                       IsMicroCap(c.fundamentals))} :
                /\ running' = [running EXCEPT
                        ![i].pc = "done",
                        ![i].reads = @ \cup {"rf_detector", "lstm_available"}
                                       \cup (IF lstm_available THEN {"lstm_detector"} ELSE {}),
                        ![i].ret = Some(analyze(c.ticker, c.use_synthetic, context, feat,
                                                sec_flagged, anomaly_result, computed_signals,
                                                rf_prob, lstm_prob, combined_prob, fetched))]
                /\ rf_detector' = Seen(rf_detector, features, rf_prob)
                /\ lstm_detector' = IF lstm_available
                                    THEN Seen(lstm_detector, c.price_data, lstm_prob)
                                    ELSE lstm_detector
        /\ UNCHANGED <<rf_available, lstm_available, calls, rets, api_server>>

NextConcurrent == AnalyzeCheckRf \/ AnalyzeTrainRf \/ AnalyzeReturn

SpecConcurrent == InitConcurrent /\ [][NextConcurrent]_vars

\* C19: concurrent analyze invocations on one pipeline need no
\* synchronization: no invocation reads or writes pipeline state that another
\* one writes, also when the Random Forest is not available at the start, so
\* that each returns what it returns when run alone.
C19_NoSharedWrites ==
    \A i \in DOMAIN running, j \in DOMAIN running :
        i # j => running[i].writes \cap (running[j].reads \cup running[j].writes) = {}

---------------------------------------------------------------------------
(* SpecPattern: detect_pattern_anomalies on windows with one peak.          *)

\* A table whose trailing lookback rows hold Close = first before position p,
\* peak at position p and last after it, preceded by `lead` older rows with a
\* higher Close that lie outside the window.
PeakTable(lead, p, first, peak, last) ==
    [i \in 1..lead |-> Row(5 * peak, 0, 10, NeutralZ, NeutralVol, 0, 0, 50)]
    \o [i \in 1..lookback |->
           Row(IF i - 1 < p THEN first ELSE IF i - 1 = p THEN peak ELSE last,
               0, 10, NeutralZ, NeutralVol, 0, 0, 50)]

\* rises of 20% and 40% to the peak, falls of 10% and 30% from it
PeakTables ==
    {PeakTable(lead, p, 100, peak, (peak * keep) \div 100) :
        lead \in {0, 1}, p \in 0..(lookback - 1), peak \in {120, 140}, keep \in {90, 70}}

PatternCalls == {<<DetectorCall("detect_pattern_anomalies", df)>> : df \in PeakTables}

InitPattern ==
    /\ rf_available = FALSE
    /\ lstm_available = FALSE
    /\ rf_detector = Untrained
    /\ lstm_detector = Untrained
    /\ calls \in PatternCalls
    /\ rets = <<>>
    /\ running = <<>>
    /\ NotServing

NextPattern == DetectPattern

SpecPattern == InitPattern /\ [][NextPattern]_vars

\* the Close column of the trailing lookback rows
WindowCloses(df) == [i \in 1..lookback |-> df[Len(df) - lookback + i]["Close"]]

PrePeakRows(df) == IdxMax(WindowCloses(df)) + 1
PostPeakRows(df) == lookback - IdxMax(WindowCloses(df))

\* pre-peak return above 0.30 and post-peak return below -0.20
RoseAndFell(df) ==
    LET closes == WindowCloses(df)
        peak == closes[IdxMax(closes) + 1]
    IN  /\ 10 * peak > 13 * closes[1]
        /\ 10 * closes[lookback] < 8 * peak

EmitsPumpAndDump(r) == InSeq("pump_and_dump_pattern", r.anomaly_types)

\* C21 as stated: pump_and_dump_pattern is emitted exactly when the position p
\* of the maximum Close satisfies lookback/3 < p < 2*lookback/3, both
\* sub-windows have more than 2 rows, the rise exceeds 0.30 and the fall is
\* below -0.20.
C21_PeakInMiddleThird ==
    \A i \in 1..Len(rets) :
        calls[i].fn = "detect_pattern_anomalies" =>
            (EmitsPumpAndDump(rets[i]) <=>
                /\ 3 * IdxMax(WindowCloses(calls[i].df)) > lookback
                /\ 3 * IdxMax(WindowCloses(calls[i].df)) < 2 * lookback
                /\ PrePeakRows(calls[i].df) > 2
                /\ PostPeakRows(calls[i].df) > 2
                /\ RoseAndFell(calls[i].df))

\* C21, amended: the bounds on p are the floored thirds, lookback // 3 < p <
\* (2 * lookback) // 3, i.e. 5 <= p <= 8 for the default lookback of 14.
C21_PeakBetweenFlooredThirds ==
    \A i \in 1..Len(rets) :
        calls[i].fn = "detect_pattern_anomalies" =>
            (EmitsPumpAndDump(rets[i]) <=>
                /\ IdxMax(WindowCloses(calls[i].df)) \in 5..8
                /\ PrePeakRows(calls[i].df) > 2
                /\ PostPeakRows(calls[i].df) > 2
                /\ RoseAndFell(calls[i].df))

C21_Witness ==
    /\ Len(rets) = 1
    /\ calls[1].fn = "detect_pattern_anomalies"
    /\ EmitsPumpAndDump(rets[1])
    /\ IdxMax(WindowCloses(calls[1].df)) = 8
    /\ Len(calls[1].df) > lookback

---------------------------------------------------------------------------
(* The explanation text of an assessment.                                    *)

\* the prose bullets in the order of priority
BulletPriority ==
    << "CRITICAL: Asset appears on SEC trading suspension/alert list",
       "Listed on over-the-counter market (higher risk)",
       "Very small market cap",
       "Large price movement",
       "Trading volume above normal average",
       "Classic pump-and-dump trading pattern detected",
       "Active pump pattern: rising price + exploding volume",
       "Technically overbought",
       "Large price move without identified news catalyst" >>

\* the key indicator written together with each bullet
IndicatorOfBullet ==
    << "SEC regulatory alert", "OTC/Pink Sheets exchange", "Micro-cap", "7-day price",
       "Volume surge", "Pump-and-dump pattern", "Pump pattern active", "Overbought",
       "No news catalyst" >>

\* the priorities of the bullets that fired, read off the key indicators
FiredBullets(r) ==
    {k \in 1..Len(BulletPriority) : InSeq(IndicatorOfBullet[k], r.key_indicators)}

PriorityOf(bullet) == CHOOSE k \in 1..Len(BulletPriority) : BulletPriority[k] = bullet

\* C22: the explanation holds at most 5 bullets, in the fixed priority order
\* SEC flag, OTC, market cap, price move, volume surge, pattern tags, RSI,
\* missing news; when more than 5 fire, the ones of lowest priority are dropped.
C22_BulletsByPriority ==
    \A i \in 1..Len(rets) :
        calls[i].fn = "analyze" =>
            LET body == rets[i].explanation.body
                fired == FiredBullets(rets[i])
            IN  /\ Len(body) <= 5
                /\ Len(body) = Min(5, Cardinality(fired))
                /\ \A k \in 1..Len(body) : body[k] \in Range(BulletPriority)
                /\ \A k \in 1..Len(body) : PriorityOf(body[k]) \in fired
                /\ \A k \in 1..(Len(body) - 1) : PriorityOf(body[k]) < PriorityOf(body[k + 1])
                /\ \A k \in 1..Len(body) :
                       \A h \in fired : h < PriorityOf(body[k]) => InSeq(BulletPriority[h], body)

C22_Witness ==
    /\ Len(rets) = 1
    /\ calls[1].fn = "analyze"
    /\ Cardinality(FiredBullets(rets[1])) > 5
    /\ Len(rets[1].explanation.body) = 5
    /\ 9 \in FiredBullets(rets[1])

\* C29: the explanation agrees with the verdict of the same assessment: the
\* level of its "Risk Level: X" header equals risk_level, and the sentence
\* "No significant red flags detected. Market behavior appears normal." is
\* produced only when risk_level is LOW.
C29_ExplanationAgreesWithVerdict ==
    \A i \in 1..Len(rets) :
        calls[i].fn = "analyze" =>
            /\ rets[i].explanation.header # None =>
                   rets[i].explanation.header[1] = rets[i].risk_level
            /\ rets[i].explanation.text
                   = "No significant red flags detected. Market behavior appears normal."
               => rets[i].risk_level = "LOW"

---------------------------------------------------------------------------
(* The ML ensemble against the verdict (SpecCombine) *)

\* C23: when the ML ensemble probability (rf_prob alone, or the blend of
\* rf_prob and lstm_prob) is at least 0.70, the combined probability calibrates
\* to HIGH, whatever the anomaly score and the flags are.
C23_HighEnsembleIsHigh ==
    \A i \in 1..Len(rets) :
        (calls[i].fn = "combine_predictions"
         /\ MlProb(calls[i].rf_prob, calls[i].lstm_prob) >= 70 * U)
            => calibrate_probability(rets[i]) = "HIGH"

---------------------------------------------------------------------------
(* SpecLoad: the pipeline is constructed with load_models=True over a        *)
(* models directory and a model_hashes.json.                                 *)
(* model_integrity.py, ScamDetectorRF.load and ScamDetectorLSTM.load         *)

\* MODEL_PATHS and the scaler file ScamDetectorLSTM.load derives from its path
ModelFiles ==
    {"models/random_forest_scam_detector.joblib", "models/feature_scaler.joblib",
     "models/lstm_scam_detector.keras", "models/lstm_scam_detector_scaler.npy"}

\* what a path may hold: nothing, the file that was released, or another file
FileContents == {"absent", "released", "replaced"}

compute_sha256(content) == <<"sha256", content>>

\* verify_model_file(file_path), given the directory and model_hashes.json
verify_model_file(file_path, files, expected_hashes) ==
    LET expected == expected_hashes[file_path]
    IN  IF expected = None THEN TRUE
        ELSE IF files[file_path] = "absent" THEN FALSE
        ELSE IF compute_sha256(files[file_path]) # expected[1] THEN FALSE
        ELSE TRUE

\* ScamDetectorRF.load: the files it deserializes, in order, the files it has
\* passed to verify_model_file, and what it returns
ScamDetectorRF_load(files) ==
    LET model_path == "models/random_forest_scam_detector.joblib"
        scaler_path == "models/feature_scaler.joblib"
    IN  IF files[model_path] = "absent"
        THEN [returned |-> FALSE, deserialized |-> <<>>, verified |-> {}]
        ELSE IF files[scaler_path] = "absent"
        THEN [returned |-> FALSE, deserialized |-> <<model_path>>, verified |-> {}]
        ELSE [returned |-> TRUE, deserialized |-> <<model_path, scaler_path>>,
              verified |-> {}]

\* ScamDetectorLSTM.load
ScamDetectorLSTM_load(files) ==
    LET model_path == "models/lstm_scam_detector.keras"
        scaler_path == "models/lstm_scam_detector_scaler.npy"
    IN  IF files[model_path] = "absent"
        THEN [returned |-> FALSE, deserialized |-> <<>>, verified |-> {}]
        ELSE IF files[scaler_path] = "absent"
        THEN [returned |-> FALSE, deserialized |-> <<model_path>>, verified |-> {}]
        ELSE [returned |-> TRUE, deserialized |-> <<model_path, scaler_path>>,
              verified |-> {}]

\* ScamDetectionPipeline(load_models=True)
ConstructCall(files, expected_hashes) ==
    [fn |-> "__init__", files |-> files, expected_hashes |-> expected_hashes]

\* ScamDetectionPipeline.__init__ with load_models=True; what it returns is
\* recorded as the two load results
LoadModels ==
    /\ Pending
    /\ Cur.fn = "__init__"
    /\ \E rf \in {ScamDetectorRF_load(Cur.files)},
          lstm \in {ScamDetectorLSTM_load(Cur.files)} :
            /\ rf_available' = rf.returned
            /\ lstm_available' = lstm.returned
            /\ rets' = Append(rets, [rf |-> rf, lstm |-> lstm])
    /\ rf_detector' = Untrained
    /\ lstm_detector' = Untrained
    /\ UNCHANGED <<calls, running, api_server>>

LoadCalls ==
    {<<ConstructCall(files, expected_hashes)>> :
        files \in [ModelFiles -> FileContents],
        expected_hashes \in [ModelFiles -> {None, Some(compute_sha256("released"))}]}

InitLoad ==
    /\ rf_available = FALSE
    /\ lstm_available = FALSE
    /\ rf_detector = Untrained
    /\ lstm_detector = Untrained
    /\ calls \in LoadCalls
    /\ rets = <<>>
    /\ running = <<>>
    /\ NotServing

NextLoad == LoadModels

SpecLoad == InitLoad /\ [][NextLoad]_vars

\* C24: every model or scaler file that a load deserializes has first passed
\* verify_model_file, and a file whose SHA-256 differs from the hash configured
\* for it is never deserialized.
C24_VerifiedBeforeLoading ==
    \A i \in 1..Len(rets) :
        calls[i].fn = "__init__" =>
            \A load \in {rets[i].rf, rets[i].lstm} :
                \A f \in Range(load.deserialized) :
                    /\ f \in load.verified
                    /\ verify_model_file(f, calls[i].files, calls[i].expected_hashes)

---------------------------------------------------------------------------
(* SpecCrypto: compute_crypto_risk_score (crypto_feature_engineering.py)     *)

\* CRYPTO_RISK_SIGNALS, the weights compute_crypto_risk_score reads
CRYPTO_RISK_SIGNALS ==
    [HONEYPOT |-> 100, OWNER_CAN_CHANGE_BALANCE |-> 100, HIDDEN_OWNER |-> 25,
     CAN_MINT |-> 20, HIGH_SELL_TAX |-> 20, HIGH_BUY_TAX |-> 15, LP_NOT_LOCKED |-> 18,
     LP_LOW_LOCK_DURATION |-> 10, LOW_LIQUIDITY_RATIO |-> 15,
     HIGH_HOLDER_CONCENTRATION |-> 15, LOW_HOLDER_COUNT |-> 10, PUMP_PATTERN |-> 15,
     EXTREME_VOLATILITY |-> 12, VOLUME_MANIPULATION |-> 12, NEW_TOKEN |-> 8]

\* one triggered signal; weight_of names the entry of CRYPTO_RISK_SIGNALS
CryptoSignal(cond, code, category, weight_of) ==
    IF cond
    THEN <<[code |-> code, category |-> category, weight |-> CRYPTO_RISK_SIGNALS[weight_of]]>>
    ELSE <<>>

\* features.get(name, 0) taken as a condition
Flag(features, name) == Get(features, name, 0) # 0

\* risk_probability = min(total_weight / max_weight, 1.0), halved for an
\* established token that is not a honeypot
CryptoRiskProbability(features, total_weight) ==
    IF Flag(features, "is_established") /\ ~Flag(features, "is_honeypot")
    THEN Min(total_weight * U, SCALE) \div 2
    ELSE Min(total_weight * U, SCALE)

compute_crypto_risk_score(features) ==
    LET signals ==
            CryptoSignal(Flag(features, "is_honeypot"), "HONEYPOT", "CONTRACT", "HONEYPOT")
            \o CryptoSignal(Flag(features, "owner_can_change_balance"),
                            "OWNER_CAN_CHANGE_BALANCE", "CONTRACT", "OWNER_CAN_CHANGE_BALANCE")
            \o CryptoSignal(Flag(features, "hidden_owner"),
                            "HIDDEN_OWNER", "CONTRACT", "HIDDEN_OWNER")
            \o CryptoSignal(Flag(features, "can_mint"), "CAN_MINT", "CONTRACT", "CAN_MINT")
            \o CryptoSignal(Flag(features, "high_sell_tax"),
                            "HIGH_SELL_TAX", "CONTRACT", "HIGH_SELL_TAX")
            \o CryptoSignal(Flag(features, "high_buy_tax"),
                            "HIGH_BUY_TAX", "CONTRACT", "HIGH_BUY_TAX")
            \o CryptoSignal(~Flag(features, "lp_locked") /\ ~Flag(features, "is_established"),
                            "LP_NOT_LOCKED", "LIQUIDITY", "LP_NOT_LOCKED")
            \o CryptoSignal(Flag(features, "short_lp_lock"),
                            "LP_LOW_LOCK_DURATION", "LIQUIDITY", "LP_LOW_LOCK_DURATION")
            \o CryptoSignal(Flag(features, "low_liquidity_ratio"),
                            "LOW_LIQUIDITY_RATIO", "LIQUIDITY", "LOW_LIQUIDITY_RATIO")
            \o CryptoSignal(Flag(features, "high_concentration"),
                            "HIGH_HOLDER_CONCENTRATION", "DISTRIBUTION",
                            "HIGH_HOLDER_CONCENTRATION")
            \o CryptoSignal(Flag(features, "low_holder_count"),
                            "LOW_HOLDER_COUNT", "DISTRIBUTION", "LOW_HOLDER_COUNT")
            \o CryptoSignal(Flag(features, "pump_pattern"),
                            "PUMP_PATTERN", "PATTERN", "PUMP_PATTERN")
            \o CryptoSignal(Flag(features, "spike_then_drop"),
                            "SPIKE_THEN_DROP", "PATTERN", "PUMP_PATTERN")
            \o CryptoSignal(Flag(features, "is_extreme_volatility"),
                            "EXTREME_VOLATILITY", "PATTERN", "EXTREME_VOLATILITY")
            \o CryptoSignal(Flag(features, "volume_explosion_extreme"),
                            "VOLUME_MANIPULATION", "PATTERN", "VOLUME_MANIPULATION")
            \o CryptoSignal(Flag(features, "is_micro_cap") /\ ~Flag(features, "is_established"),
                            "NEW_TOKEN", "STRUCTURAL", "NEW_TOKEN")
        total_weight == SumSeq(Weights(signals))
    IN  [risk_probability |-> CryptoRiskProbability(features, total_weight),
         signals |-> signals]

CryptoCall(features) == [fn |-> "compute_crypto_risk_score", features |-> features]

ComputeCryptoRiskScore ==
    /\ Pending
    /\ Cur.fn = "compute_crypto_risk_score"
    /\ rets' = Append(rets, compute_crypto_risk_score(Cur.features))
    /\ UNCHANGED <<rf_available, lstm_available, rf_detector, lstm_detector, calls, running, api_server>>

\* the features the calls vary; a feature left out of the dictionary counts as 0
CryptoFeatures ==
    {"is_honeypot", "owner_can_change_balance", "is_established", "lp_locked",
     "hidden_owner", "pump_pattern", "is_micro_cap"}

CryptoCalls ==
    {<<CryptoCall([f \in present |-> IF f \in raised THEN 1 ELSE 0])>> :
        present \in {CryptoFeatures, CryptoFeatures \ {"lp_locked", "is_established"}},
        raised \in SUBSET CryptoFeatures}

InitCrypto ==
    /\ rf_available = FALSE
    /\ lstm_available = FALSE
    /\ rf_detector = Untrained
    /\ lstm_detector = Untrained
    /\ calls \in CryptoCalls
    /\ rets = <<>>
    /\ running = <<>>
    /\ NotServing

NextCrypto == ComputeCryptoRiskScore

SpecCrypto == InitCrypto /\ [][NextCrypto]_vars

\* C25: a token with a CRITICAL signal (is_honeypot or owner_can_change_balance)
\* always receives a risk probability that is HIGH under the crypto thresholds
\* (>= 0.60), whatever its other features are, is_established included.
C25_CriticalSignalIsHigh ==
    \A i \in 1..Len(rets) :
        (calls[i].fn = "compute_crypto_risk_score"
         /\ (Flag(calls[i].features, "is_honeypot")
             \/ Flag(calls[i].features, "owner_can_change_balance")))
            => rets[i].risk_probability >= CRYPTO_RISK_MEDIUM * U

---------------------------------------------------------------------------
(* News verification, step 9 of analyze (Spec) *)

\* the verdict before news verification: the higher of the two verdicts
MergedLevel(r) == FinalRiskLevel(r.signal_risk_level, r.ml_risk_level)

\* C26: news verification runs only when the merged risk level is HIGH and
\* use_synthetic is false; it changes risk_level only from HIGH to MEDIUM, and
\* only when it found no promotional keyword and found a legitimate catalyst
\* or a recent SEC filing; with promotional content, with neither news nor
\* filings, or when it raises, risk_level stays HIGH.  It never yields LOW.
C26_VerificationOnlyLowersHighToMedium ==
    \A i \in 1..Len(rets) :
        calls[i].fn = "analyze" =>
            LET r == rets[i]
                nv == r.news_verification
            IN  /\ nv # None => MergedLevel(r) = "HIGH" /\ ~calls[i].use_synthetic
                /\ nv = None => r.risk_level = MergedLevel(r)
                /\ r.risk_level # MergedLevel(r) =>
                       /\ MergedLevel(r) = "HIGH" /\ r.risk_level = "MEDIUM"
                       /\ ~nv[1].has_promotional_signals
                       /\ nv[1].has_legitimate_catalyst \/ nv[1].has_sec_filings
                /\ (nv # None /\ nv[1].has_promotional_signals) => r.risk_level = "HIGH"
                /\ (nv # None /\ ~nv[1].has_legitimate_catalyst /\ ~nv[1].has_sec_filings)
                       => r.risk_level = "HIGH"
                /\ MergedLevel(r) = "HIGH" => r.risk_level # "LOW"

C26_Witness ==
    /\ Len(rets) = 1
    /\ calls[1].fn = "analyze"
    /\ ~calls[1].use_synthetic
    /\ MergedLevel(rets[1]) = "HIGH"
    /\ rets[1].risk_level = "MEDIUM"
    /\ rets[1].news_verification # None
    /\ rets[1].news_verification[1].has_sec_filings
    /\ ~rets[1].news_verification[1].has_legitimate_catalyst

---------------------------------------------------------------------------
(* SpecGetPipeline: concurrent calls of api_server.get_pipeline, each        *)
(* followed statement by statement.                                          *)

NCalls == 3

\* a call of get_pipeline that has not started; ret is what it returned once
\* pc is "done"; arrived_initializing records pipeline_initializing at the
\* moment of the call
Caller == [pc |-> "start", ret |-> None, arrived_initializing |-> FALSE]

\* Faulty variant of LockFree: pipeline_lock excludes nobody.
LockFree_Always(lock) == TRUE

\* "with pipeline_lock:" may be entered
LockFree(lock) == lock = 0

\* "if pipeline is not None: return pipeline", before the lock is taken
GetPipelineEnter ==
    \E i \in DOMAIN running :
        /\ running[i].pc = "start"
        /\ running' = [running EXCEPT
                ![i].pc = IF pipeline # None THEN "done" ELSE "acquire",
                ![i].ret = pipeline,
                ![i].arrived_initializing = pipeline_initializing]
        /\ UNCHANGED <<rf_available, lstm_available, rf_detector, lstm_detector, calls, rets, api_server>>

\* "with pipeline_lock:", entered when the lock is free
GetPipelineAcquire ==
    \E i \in DOMAIN running :
        /\ running[i].pc = "acquire"
        /\ LockFree(pipeline_lock)
        /\ pipeline_lock' = i
        /\ running' = [running EXCEPT ![i].pc = "locked"]
        /\ UNCHANGED <<rf_available, lstm_available, rf_detector, lstm_detector, calls, rets, pipeline, pipeline_initializing>>

\* under the lock: the second test of pipeline, the test of
\* pipeline_initializing, and "pipeline_initializing = True"
GetPipelineDoubleCheck ==
    \E i \in DOMAIN running :
        /\ running[i].pc = "locked"
        /\ IF pipeline # None
           THEN /\ running' = [running EXCEPT ![i].pc = "done", ![i].ret = pipeline]
                /\ pipeline_lock' = 0
                /\ UNCHANGED pipeline_initializing
           ELSE IF pipeline_initializing
           THEN /\ running' = [running EXCEPT ![i].pc = "done", ![i].ret = None]
                /\ pipeline_lock' = 0
                /\ UNCHANGED pipeline_initializing
           ELSE /\ running' = [running EXCEPT ![i].pc = "construct"]
                /\ pipeline_initializing' = TRUE
                /\ UNCHANGED pipeline_lock
        /\ UNCHANGED <<rf_available, lstm_available, rf_detector, lstm_detector, calls, rets, pipeline>>

\* the try block: ScamDetectionPipeline(load_models=True), the trainings, and
\* "pipeline = pipeline_instance"; or an exception, answered with None
GetPipelineConstruct ==
    \E i \in DOMAIN running :
        /\ running[i].pc = "construct"
        /\ \/ /\ pipeline' = Some(i)
              /\ rf_available' = TRUE
              /\ lstm_available' \in BOOLEAN
              /\ rf_detector' = Untrained
              /\ lstm_detector' = Untrained
              /\ running' = [running EXCEPT ![i].pc = "finally", ![i].ret = Some(i)]
           \/ /\ running' = [running EXCEPT ![i].pc = "finally", ![i].ret = None]
              /\ UNCHANGED <<pipeline, rf_available, lstm_available, rf_detector, lstm_detector>>
        /\ UNCHANGED <<calls, rets, pipeline_initializing, pipeline_lock>>

\* "finally: pipeline_initializing = False", then the lock is released
GetPipelineFinally ==
    \E i \in DOMAIN running :
        /\ running[i].pc = "finally"
        /\ pipeline_initializing' = FALSE
        /\ pipeline_lock' = 0
        /\ running' = [running EXCEPT ![i].pc = "done"]
        /\ UNCHANGED <<rf_available, lstm_available, rf_detector, lstm_detector, calls, rets, pipeline>>

InitGetPipeline ==
    /\ rf_available = FALSE
    /\ lstm_available = FALSE
    /\ rf_detector = Untrained
    /\ lstm_detector = Untrained
    /\ calls = [i \in 1..NCalls |-> [fn |-> "get_pipeline"]]
    /\ rets = <<>>
    /\ running = [i \in 1..NCalls |-> Caller]
    /\ NotServing

NextGetPipeline ==
    \/ GetPipelineEnter
    \/ GetPipelineAcquire
    \/ GetPipelineDoubleCheck
    \/ GetPipelineConstruct
    \/ GetPipelineFinally

SpecGetPipeline == InitGetPipeline /\ [][NextGetPipeline]_vars

Returned_get_pipeline(i) == running[i].pc = "done"

\* C27: a get_pipeline call that arrives while another thread is initializing
\* the pipeline returns None without waiting for the initialization to end.
C27_NoneWhileInitializing ==
    \A i \in DOMAIN running :
        running[i].arrived_initializing =>
            /\ running[i].pc = "acquire" => LockFree(pipeline_lock)
            /\ Returned_get_pipeline(i) => running[i].ret = None

\* at most one call is inside the try block
OneConstructing ==
    Cardinality({i \in DOMAIN running : running[i].pc \in {"construct", "finally"}}) <= 1

\* every call that returned an instance returned the one in use
SameInstance ==
    \A i \in DOMAIN running :
        (Returned_get_pipeline(i) /\ running[i].ret # None) => running[i].ret = pipeline

\* outside the try block pipeline_initializing is false, so that a call that
\* finds no pipeline under the lock constructs one
RetryOpen ==
    /\ pipeline_lock = 0 => ~pipeline_initializing
    /\ \A i \in DOMAIN running :
           running[i].pc = "locked" => ~pipeline_initializing
    /\ \A i \in DOMAIN running :
           (Returned_get_pipeline(i) /\ running[i].ret = None) => pipeline_lock # i

\* C28: under every interleaving of get_pipeline calls at most one thread is
\* constructing or training a pipeline; once a construction has succeeded the
\* global pipeline is never replaced and every call that returns an instance
\* returns that one; after a failed construction pipeline_initializing is false
\* again and a later call retries.
C28_OnePipeline ==
    /\ [](OneConstructing /\ SameInstance /\ RetryOpen)
    /\ [][pipeline # None => pipeline' = pipeline]_vars

\* a construction failed, a later call constructed the pipeline and another
\* call was handed the same instance
C28_Witness ==
    \E i \in DOMAIN running, j \in DOMAIN running, k \in DOMAIN running :
        /\ i # j /\ j # k /\ i # k
        /\ Returned_get_pipeline(i) /\ running[i].ret = None
        /\ Returned_get_pipeline(j) /\ running[j].ret = Some(j)
        /\ Returned_get_pipeline(k) /\ running[k].ret = Some(j)

---------------------------------------------------------------------------
(* SpecNewsPair: analyze run without and then with a news explanation on     *)
(* the same asset, on synthetic data.                                        *)

\* the tables of Spec, one whose is_anomaly a news explanation clears, and one
\* that raises no signal of weight 2 while its anomaly score is above 0.4
NewsTables ==
    AnalyzeTables
    \cup {Table(Shapes[3], ZProfiles[3], VolProfiles[3], SurgeProfiles[3]),
          Table(Shapes[5], <<14, 0, 0, 0, 0>>, VolProfiles[5], <<1, 24, 0, 29, 50>>)}

NewsPairCalls ==
    {<<AnalyzeCall(t, "stock", df, f, FALSE, TRUE, None),
       AnalyzeCall(t, "stock", df, f, TRUE, TRUE, None)>> :
        t \in {"AAPL", "scam"}, df \in NewsTables,
        f \in {FundProfiles[1], FundProfiles[2]}}

InitNewsPair ==
    /\ rf_available \in BOOLEAN
    /\ lstm_available \in BOOLEAN
    /\ rf_detector = Untrained
    /\ lstm_detector = Untrained
    /\ calls \in NewsPairCalls
    /\ rets = <<>>
    /\ running = <<>>
    /\ NotServing

NextNewsPair == Analyze

SpecNewsPair == InitNewsPair /\ [][NextNewsPair]_vars

\* both runs returned, and the models gave the second what they gave the first
SameModelOutputs ==
    /\ Len(rets) = 2
    /\ rets[1].rf_probability = rets[2].rf_probability
    /\ rets[1].lstm_probability = rets[2].lstm_probability

\* C30: with the table, the fundamentals, the SEC flag, rf_prob and lstm_prob
\* fixed, switching news_flag from false to true never increases the anomaly
\* score, never turns is_anomaly from false to true, never increases the
\* combined probability and never raises the merged risk level.
C30_NewsNeverRaisesRisk ==
    SameModelOutputs =>
        /\ rets[2].anomaly_score <= rets[1].anomaly_score
        /\ rets[2].anomaly_detected => rets[1].anomaly_detected
        /\ rets[2].combined_probability <= rets[1].combined_probability
        /\ Severity(MergedLevel(rets[2])) <= Severity(MergedLevel(rets[1]))

\* the news explanation lowered the score, cleared the anomaly and lowered the
\* merged level
C30_Witness ==
    /\ SameModelOutputs
    /\ rets[2].anomaly_score < rets[1].anomaly_score
    /\ rets[1].anomaly_detected /\ ~rets[2].anomaly_detected
    /\ rets[2].combined_probability < rets[1].combined_probability
    /\ Severity(MergedLevel(rets[2])) < Severity(MergedLevel(rets[1]))

===========================================================================
